---- MODULE Spec2Model ----
(***************************************************************************)
(* Risk-Assessment questionnaire: the quiz session of App.tsx              *)
(* (initializeQuiz, handleAnswer), the question editor (QuestionEditor,    *)
(* QuestionForm, TreeView) and the save/load path through database.ts.     *)
(*                                                                         *)
(* Display numbers ("2.1") are sequences of naturals (<<2, 1>>), '' is     *)
(* <<>>.  An answer value is [kind, val]: a JS string is kind "string"     *)
(* with val = <<s>>, a JS array of strings is kind "list".                 *)
(* currentQuestionIndex is 0-based as in the code; sequences are 1-based.  *)
(***************************************************************************)
EXTENDS Integers, Sequences, FiniteSets, TLC

VARIABLES
    allQuestions,          \* App state: pool loaded from the database
    questionsMap,          \* App state: id -> Question, built by initializeQuiz
    questionQueue,         \* App state: the live queue (sequence of Question)
    currentQuestionIndex,  \* App state
    score,                 \* App state
    quizComplete,          \* App state
    answers,               \* App state: id -> answer value
    viewMode,              \* App state: "quiz" | "editor"
    questions,             \* QuestionEditor state: the snapshot being edited
    selectedQuestionId,    \* QuestionEditor state (NoSelection for null)
    editorError,           \* "none", or the error a handler threw
    db,                    \* DatabaseService: the open sql.js database
    storedDb,              \* localStorage: the entry persistDb writes
    dbPromise,             \* database.ts: the module's dbPromise (0 for null, else a promise id)
    promises,              \* the promises getInstance created: id -> state and instance
    callers,               \* the callers of getInstance: position, promise awaited, instance got
    initCount,             \* history: database loads, seedings and instances constructed
    now,                   \* Date.now(), in ticks
    cache,                 \* localStorage: the workCompCodesCache entry
    codeCalls,             \* the calls of getWorkCompCodes: position, what they saw, result
    keyOrder,              \* the order in which the followUp objects hold their keys
    tree,                  \* TreeView: the forest rendered (roots and children, in list order)
    currentWorkCompCodeInput, \* App state: the text of the work-comp code input
    workCompCodes,         \* App state: the codes added for the current question
    isFetchingCompCodeDesc,\* App state: a description lookup is running
    lookup,                \* the handleAddWorkCompCode call awaiting generateContent
    isRejected,            \* App state: the rejection view is shown
    workCompSuggestions,   \* App state: the suggestions shown under the input
    isFetchingSuggestions, \* App state: the suggestions spinner
    debounceTimeoutRef,    \* the timer handleWorkCompInputChange set last
    requests,              \* the suggestion requests sent: value, keystroke, response
    keystrokes,            \* history: number of input changes so far
    lastOp,                \* history: the last handler that ran, with its inputs
    edits                  \* history: number of editor handlers run so far

vars == <<allQuestions, questionsMap, questionQueue, currentQuestionIndex, score,
          quizComplete, answers, viewMode, questions, selectedQuestionId,
          editorError, db, storedDb, dbPromise, promises, callers, initCount,
          now, cache, codeCalls, keyOrder, tree, currentWorkCompCodeInput, workCompCodes,
          isFetchingCompCodeDesc, lookup, isRejected, workCompSuggestions,
          isFetchingSuggestions, debounceTimeoutRef, requests, keystrokes, lastOp, edits>>

dbVars == <<db, storedDb>>

serviceVars == <<dbPromise, promises, callers, initCount>>

\* the state outside the App component and the editor
cacheVars == <<now, cache, codeCalls>>

treeVars == <<keyOrder, tree>>

\* the work-comp code question: the description lookup and its results
lookupVars == <<workCompCodes, isFetchingCompCodeDesc, lookup, isRejected>>

\* the work-comp code question: the debounced suggestions
suggestVars == <<workCompSuggestions, isFetchingSuggestions, debounceTimeoutRef, requests, keystrokes>>

workCompVars == <<currentWorkCompCodeInput, lookupVars, suggestVars>>

asyncVars == <<serviceVars, cacheVars, treeVars, workCompVars>>

quizVars == <<questionsMap, questionQueue, currentQuestionIndex, score, quizComplete, answers>>

editorVars == <<questions, selectedQuestionId, editorError>>

---------------------------------------------------------------------------
(* Bounds *)

\* editor handlers run per behaviour
MaxEdits == 1

\* concurrent callers of DatabaseService.getInstance
NumCallers == 3

\* calls of getWorkCompCodes per behaviour
NumCodeCalls == 2

\* the clock stops at MaxTime ticks
MaxTime == 4

\* input changes of the work-comp code field per behaviour
MaxKeystrokes == 2

\* clicks on the Add button of the work-comp code question per behaviour
MaxLookups == 2

---------------------------------------------------------------------------
(* Types *)

Answers == {"Yes", "No", "N/A"}

\* "undefined" stands for a Question without the optional controlType property
ControlTypes == {"undefined", "buttons", "text", "yes_no", "multi_state_select",
                 "work_comp_code", "numeric", "business_info"}

NoSelection == 0

Callers == 1..NumCallers

\* database.ts at module load: dbPromise = null, nobody has called getInstance
InitService ==
    /\ dbPromise = 0
    /\ promises = [p \in Callers |-> [state |-> "none", instance |-> 0]]
    /\ callers = [c \in Callers |-> [pc |-> "idle", promise |-> 0, joined |-> FALSE, instance |-> 0]]
    /\ initCount = [loads |-> 0, seeds |-> 0, instances |-> 0]

CodeCalls == 1..NumCodeCalls

\* localStorage without the workCompCodesCache entry
NoCache == [kind |-> "absent", timestamp |-> 0, codes |-> <<>>]

\* workCompService.ts before any call of getWorkCompCodes
InitCodeCache ==
    /\ now = 0
    /\ cache = NoCache
    /\ codeCalls = [c \in CodeCalls |-> [pc |-> "idle", fetched |-> FALSE, result |-> <<>>,
                                         seen |-> NoCache, at |-> 0]]

\* TreeView before it has rendered
NoTree == [rendered |-> FALSE, roots |-> <<>>, children |-> <<>>]

InitTreeView ==
    /\ keyOrder = <<"Yes", "No", "N/A">>
    /\ tree = NoTree

\* no lookup is running
NoLookup == [state |-> "idle", code |-> "", seen |-> <<>>, index |-> 0, complete |-> FALSE, count |-> 0]

\* no timer is set (debounceTimeoutRef.current is null)
NoTimer == [armed |-> FALSE, value |-> "", key |-> 0]

\* the useState initial values of the work-comp code question
InitWorkComp ==
    /\ currentWorkCompCodeInput = ""
    /\ workCompCodes = <<>>
    /\ isFetchingCompCodeDesc = FALSE
    /\ lookup = NoLookup
    /\ isRejected = FALSE
    /\ workCompSuggestions = <<>>
    /\ isFetchingSuggestions = FALSE
    /\ debounceTimeoutRef = NoTimer
    /\ requests = <<>>
    /\ keystrokes = 0

InitAsync == InitService /\ InitCodeCache /\ InitTreeView /\ InitWorkComp

Str(s) == [kind |-> "string", val |-> <<s>>]

List(l) == [kind |-> "list", val |-> l]

IsAnswerToken(answer) == answer.kind = "string" /\ answer.val[1] \in Answers

Pts(y, n, na) == [a \in Answers |-> IF a = "Yes" THEN y ELSE IF a = "No" THEN n ELSE na]

NoFollowUp == [a \in {} |-> 0]

\* A question as getQuestions returns it: controlType and followUp always set
Q(id, init, ct, pts, fu) ==
    [id |-> id, text |-> "text", number |-> <<>>, isInitial |-> init, controlType |-> ct,
     riskPoints |-> pts, followUp |-> fu, fuDef |-> TRUE]

Ids(qs) == {qs[i].id : i \in 1..Len(qs)}

\* Array.prototype.findIndex(q => q.id === id), 1-based; 0 when absent
FindIndex(qs, id) ==
    IF \E i \in 1..Len(qs) : qs[i].id = id
    THEN CHOOSE i \in 1..Len(qs) : qs[i].id = id /\ \A j \in 1..(i-1) : qs[j].id # id
    ELSE 0

\* the element a Map built from [q.id, q] pairs keeps for id: the last one
FindLast(qs, id) ==
    CHOOSE i \in 1..Len(qs) : qs[i].id = id /\ \A j \in (i+1)..Len(qs) : qs[j].id # id

---------------------------------------------------------------------------
(* renumberQuestions (QuestionEditor) *)

\* targets of q.followUp that are numbers naming a node: the children pushed for q
ChildrenOf(qs, id) ==
    UNION {{qs[i].followUp[a] : a \in DOMAIN qs[i].followUp} : i \in {j \in 1..Len(qs) : qs[j].id = id}}
        \cap Ids(qs)

\* childIds
ChildIds(qs) == UNION {ChildrenOf(qs, id) : id \in Ids(qs)}

\* RootIds without the childIds filter: every question starts a tree
RootIdsEveryQuestion(qs) == Ids(qs)

\* rootNodes: questions.filter(q => !childIds.has(q.id))
RootIds(qs) == Ids(qs) \ ChildIds(qs)

\* SortedNodes ordering the nodes by question id instead of pool position
SortedNodesById(qs, idSet) ==
    [k \in 1..Cardinality(idSet) |->
       CHOOSE id \in idSet : Cardinality({x \in idSet : x < id}) = k - 1]

\* [...nodesToNumber].sort by index in questions
SortedNodes(qs, idSet) ==
    LET firsts == [i \in 1..Len(qs) |-> IF FindIndex(qs, qs[i].id) = i THEN qs[i].id ELSE 0]
        Wanted(id) == id \in idSet
    IN SelectSeq(firsts, Wanted)

RECURSIVE assignNumbers(_, _, _, _, _)
RECURSIVE forEachNode(_, _, _, _, _, _)

RECURSIVE forEachNodeStalePrefix(_, _, _, _, _, _)

\* forEachNode numbering the children under the number their parent had before
\* the call (node.question.number) instead of the new one
forEachNodeStalePrefix(qs, sorted, index, prefix, st, depth) ==
    IF ~st.ok \/ index > Len(sorted) THEN st
    ELSE LET id == sorted[index]
             newNumber == Append(prefix, index)
             st1 == [st EXCEPT !.num[id] = newNumber]
             children == ChildrenOf(qs, id)
             st2 == IF children # {}
                    THEN assignNumbers(qs, children, qs[FindLast(qs, id)].number, st1, depth + 1)
                    ELSE st1
         IN forEachNodeStalePrefix(qs, sorted, index + 1, prefix, st2, depth)

\* one sortedNodes.forEach iteration and the ones after it
forEachNode(qs, sorted, index, prefix, st, depth) ==
    IF ~st.ok \/ index > Len(sorted) THEN st
    ELSE LET id == sorted[index]
             newNumber == Append(prefix, index)
             st1 == [st EXCEPT !.num[id] = newNumber]
             children == ChildrenOf(qs, id)
             st2 == IF children # {} THEN assignNumbers(qs, children, newNumber, st1, depth + 1)
                    ELSE st1
         IN forEachNode(qs, sorted, index + 1, prefix, st2, depth)

\* assignNumbers(nodesToNumber, prefix).  depth counts the nested calls: a call
\* nested deeper than the number of questions is on a followUp path that
\* repeats a node, so the recursion never returns and the call stack runs out
\* (RangeError); that outcome is ok = FALSE.
assignNumbers(qs, nodeIds, prefix, st, depth) ==
    IF depth > Len(qs) THEN [st EXCEPT !.ok = FALSE]
    ELSE forEachNode(qs, SortedNodes(qs, nodeIds), 1, prefix, st, depth)

\* renumberQuestions building its copies without the isInitial flag
renumberQuestionsDropsInitial(qs) ==
    IF Len(qs) = 0 THEN [ok |-> TRUE, qs |-> <<>>]
    ELSE LET st0 == [ok |-> TRUE, num |-> [id \in Ids(qs) |-> qs[FindLast(qs, id)].number]]
             st == assignNumbers(qs, RootIds(qs), <<>>, st0, 1)
         IN [ok |-> st.ok,
             qs |-> [i \in 1..Len(qs) |->
                       [qs[FindLast(qs, qs[i].id)] EXCEPT !.number = st.num[qs[i].id],
                                                          !.isInitial = FALSE]]]

\* outcome of renumberQuestions(questions): ok = FALSE when the call throws
renumberQuestions(qs) ==
    IF Len(qs) = 0 THEN [ok |-> TRUE, qs |-> <<>>]
    ELSE LET st0 == [ok |-> TRUE, num |-> [id \in Ids(qs) |-> qs[FindLast(qs, id)].number]]
             st == assignNumbers(qs, RootIds(qs), <<>>, st0, 1)
         IN [ok |-> st.ok,
             qs |-> [i \in 1..Len(qs) |-> [qs[FindLast(qs, qs[i].id)] EXCEPT !.number = st.num[qs[i].id]]]]

---------------------------------------------------------------------------
(* database.ts: saveQuestions / getQuestions *)

\* the rows saveQuestions inserts: Questions in array order, FollowUpRules
saveQuestions(qs) ==
    [rows |-> [i \in 1..Len(qs) |->
                 [QuestionID |-> qs[i].id, Text |-> qs[i].text, Number |-> qs[i].number,
                  IsInitial |-> IF qs[i].isInitial THEN 1 ELSE 0, DisplayOrder |-> i - 1,
                  RiskPointsYes |-> qs[i].riskPoints["Yes"], RiskPointsNo |-> qs[i].riskPoints["No"],
                  RiskPointsNA |-> qs[i].riskPoints["N/A"],
                  ControlType |-> IF qs[i].controlType = "undefined" THEN "buttons"
                                  ELSE qs[i].controlType]],
     rules |-> UNION {{<<qs[i].id, qs[i].followUp[a], a>> : a \in DOMAIN qs[i].followUp} :
                      i \in 1..Len(qs)}]

\* the questions getQuestions builds from the rows (ORDER BY DisplayOrder)
getQuestions(database) ==
    [i \in 1..Len(database.rows) |->
       LET row == database.rows[i]
           mine == {r \in database.rules : r[1] = row.QuestionID}
       IN [id |-> row.QuestionID, text |-> row.Text, number |-> row.Number,
           isInitial |-> row.IsInitial # 0,
           riskPoints |-> Pts(row.RiskPointsYes, row.RiskPointsNo, row.RiskPointsNA),
           controlType |-> row.ControlType,
           followUp |-> [a \in {r[3] : r \in mine} |-> (CHOOSE r \in mine : r[3] = a)[2]],
           fuDef |-> TRUE]]

\* quizData.ts: one entry of ALL_QUESTIONS (controlType and followUp may be absent)
Default(id, number, init, ct, pts, fu) ==
    [id |-> id, text |-> "text", number |-> number, isInitial |-> init, controlType |-> ct,
     riskPoints |-> pts, followUp |-> fu, fuDef |-> fu # NoFollowUp]

\* quizData.ts: ALL_QUESTIONS
ALL_QUESTIONS ==
    << Default(7, <<1>>, TRUE, "text", Pts(0, 0, 0), NoFollowUp),
       Default(8, <<2>>, TRUE, "text", Pts(0, 0, 0), NoFollowUp),
       Default(9, <<3>>, TRUE, "multi_state_select", Pts(0, 0, 0), NoFollowUp),
       Default(1, <<4>>, TRUE, "undefined", Pts(5, 0, 0), NoFollowUp),
       Default(2, <<5>>, TRUE, "undefined", Pts(10, 0, 0), NoFollowUp),
       Default(3, <<6>>, TRUE, "undefined", Pts(5, 0, 0), NoFollowUp),
       Default(4, <<7>>, TRUE, "undefined", Pts(8, 0, 0), NoFollowUp),
       Default(5, <<8>>, TRUE, "undefined", Pts(5, 0, 0), NoFollowUp),
       Default(6, <<9>>, TRUE, "undefined", Pts(0, 0, 0), NoFollowUp),
       Default(100, <<>>, FALSE, "undefined", Pts(0, 10, 0), NoFollowUp),
       Default(101, <<>>, FALSE, "undefined", Pts(5, 0, 0), "Yes" :> 102),
       Default(102, <<>>, FALSE, "undefined", Pts(10, 0, 0), "Yes" :> 103),
       Default(103, <<>>, FALSE, "undefined", Pts(0, 10, 0), NoFollowUp),
       Default(104, <<>>, FALSE, "undefined", Pts(0, 5, 0), NoFollowUp),
       Default(105, <<>>, FALSE, "undefined", Pts(0, 15, 0), NoFollowUp),
       Default(106, <<>>, FALSE, "undefined", Pts(0, 5, 0), NoFollowUp),
       Default(107, <<>>, FALSE, "undefined", Pts(5, 0, 0), NoFollowUp),
       Default(200, <<>>, FALSE, "undefined", Pts(2, 0, 0), "Yes" :> 201),
       Default(201, <<>>, FALSE, "undefined", Pts(0, 10, 0), NoFollowUp),
       Default(300, <<>>, FALSE, "undefined", Pts(10, 0, 0), "Yes" :> 301),
       Default(301, <<>>, FALSE, "undefined", Pts(0, 15, 0), NoFollowUp),
       Default(400, <<>>, FALSE, "undefined", Pts(5, 0, 0), NoFollowUp),
       Default(401, <<>>, FALSE, "undefined", Pts(2, 0, 0), "Yes" :> 402),
       Default(402, <<>>, FALSE, "undefined", Pts(0, 10, 0), NoFollowUp),
       Default(500, <<>>, FALSE, "undefined", Pts(2, 0, 0), "Yes" :> 501),
       Default(501, <<>>, FALSE, "undefined", Pts(0, 10, 0), NoFollowUp),
       Default(600, <<>>, FALSE, "yes_no", Pts(0, 15, 0), NoFollowUp),
       Default(700, <<>>, FALSE, "work_comp_code", Pts(0, 0, 0), NoFollowUp) >>

\* new SQL.Database(): no table. A database is its set of tables, the number
\* of rows of Questionnaires, and the rows of Questions and FollowUpRules.
NewDatabase == [tables |-> {}, questionnaires |-> 0, rows |-> <<>>, rules |-> {}]

\* saveQuestions without its DELETE FROM FollowUpRules
SaveIntoKeepsRules(database, qs) ==
    [database EXCEPT !.rows = saveQuestions(qs).rows, !.rules = @ \cup saveQuestions(qs).rules]

\* this.saveQuestions(qs, 1, ...) on the open database: DELETE the rules whose
\* parent is a stored question, DELETE the questions, INSERT the new rows
SaveInto(database, qs) ==
    LET stored == {database.rows[i].QuestionID : i \in 1..Len(database.rows)}
        kept == {r \in database.rules : r[1] \notin stored}
    IN [database EXCEPT !.rows = saveQuestions(qs).rows, !.rules = kept \cup saveQuestions(qs).rules]

\* seedDatabase
seedDatabase(database) ==
    SaveInto([database EXCEPT !.questionnaires = @ + 1], ALL_QUESTIONS)

\* createSchemaAndSeed: CREATE TABLE Questionnaires, Questions, FollowUpRules
\* (each throws when its table exists), seedDatabase, persistDb
createSchemaAndSeed(database) ==
    IF "Questionnaires" \in database.tables
    THEN [ok |-> FALSE, db |-> database, persisted |-> FALSE]
    ELSE IF "Questions" \in database.tables
    THEN [ok |-> FALSE, persisted |-> FALSE,
          db |-> [database EXCEPT !.tables = @ \cup {"Questionnaires"}]]
    ELSE IF "FollowUpRules" \in database.tables
    THEN [ok |-> FALSE, persisted |-> FALSE,
          db |-> [database EXCEPT !.tables = @ \cup {"Questionnaires", "Questions"}]]
    ELSE [ok |-> TRUE, persisted |-> TRUE,
          db |-> seedDatabase([database EXCEPT !.tables = {"Questionnaires", "Questions", "FollowUpRules"}])]

\* resetQuestions: three DELETE statements (each throws when its table is
\* missing), then createSchemaAndSeed
resetQuestions(database) ==
    IF "FollowUpRules" \notin database.tables
    THEN [ok |-> FALSE, db |-> database, persisted |-> FALSE]
    ELSE IF "Questions" \notin database.tables
    THEN [ok |-> FALSE, persisted |-> FALSE, db |-> [database EXCEPT !.rules = {}]]
    ELSE IF "Questionnaires" \notin database.tables
    THEN [ok |-> FALSE, persisted |-> FALSE, db |-> [database EXCEPT !.rules = {}, !.rows = <<>>]]
    ELSE createSchemaAndSeed([database EXCEPT !.rules = {}, !.rows = <<>>, !.questionnaires = 0])

\* localStorage without the entry, and with the entry persistDb wrote
NoStoredDb == [present |-> FALSE, db |-> NewDatabase]

Persisted(database) == [present |-> TRUE, db |-> database]

\* getInstance: the stored database if there is one, seeded when it has no
\* Questions table
getInstance(stored) ==
    LET database == IF stored.present THEN stored.db ELSE NewDatabase
    IN IF "Questions" \notin database.tables THEN createSchemaAndSeed(database)
       ELSE [ok |-> TRUE, db |-> database, persisted |-> FALSE]

\* the database after the editor saved qs
DatabaseOf(qs) == SaveInto(seedDatabase([NewDatabase EXCEPT !.tables = {"Questionnaires", "Questions", "FollowUpRules"}]), qs)

---------------------------------------------------------------------------
(* App.tsx: the quiz session *)

GENERAL_SAFETY_IDS == <<100, 101, 104, 105, 106, 107>>

\* INDUSTRY_QUESTION_SETS with the general ids ahead of the industry ones
IndustrySetsGeneralFirst(id) ==
    CASE id = 1 -> GENERAL_SAFETY_IDS \o <<200>>
      [] id = 2 -> GENERAL_SAFETY_IDS \o <<300, 200>>
      [] id = 3 -> GENERAL_SAFETY_IDS \o <<400, 401>>
      [] id = 4 -> GENERAL_SAFETY_IDS \o <<200>>
      [] id = 5 -> GENERAL_SAFETY_IDS \o <<400, 500>>
      [] id = 6 -> GENERAL_SAFETY_IDS
      [] OTHER -> <<>>

\* INDUSTRY_QUESTION_SETS[id] || []
INDUSTRY_QUESTION_SETS(id) ==
    CASE id = 1 -> <<200>> \o GENERAL_SAFETY_IDS
      [] id = 2 -> <<300, 200>> \o GENERAL_SAFETY_IDS
      [] id = 3 -> <<400, 401>> \o GENERAL_SAFETY_IDS
      [] id = 4 -> <<200>> \o GENERAL_SAFETY_IDS
      [] id = 5 -> <<400, 500>> \o GENERAL_SAFETY_IDS
      [] id = 6 -> GENERAL_SAFETY_IDS
      [] OTHER -> <<>>

\* the ids the special injection of handleAnswer names
StateQuestionId == 9

CaliforniaQuestionId == 600

WorkCompQuestionId == 700

IsButtonAnswer(q) == q.controlType \in {"undefined", "buttons", "yes_no"}

\* allQuestions.reduce((acc, q) => { acc[q.id] = q; ... })
BuildMap(qs) == [id \in Ids(qs) |-> qs[FindLast(qs, id)]]

\* questionIdsToInject.map(id => questionsMap[id]).filter(q => !!q)
NewDynamicQueue(ids, qMap) ==
    LET Present(id) == id \in DOMAIN qMap
        present == SelectSeq(ids, Present)
    IN [i \in 1..Len(present) |-> qMap[present[i]]]

\* CombinedQueue built on the whole queue instead of the answered slice
CombinedQueueKeepsTail(queue, index, ids, qMap) == queue \o NewDynamicQueue(ids, qMap)

\* [...answeredQuestions, ...newDynamicQueue]
CombinedQueue(queue, index, ids, qMap) == SubSeq(queue, 1, index + 1) \o NewDynamicQueue(ids, qMap)

\* nextQueue.find(q => q.id === id) is defined
QueueHas(queue, id) == \E i \in 1..Len(queue) : queue[i].id = id

\* Splice with a delete count: the items take the place of the questions that
\* stood there
SpliceOverwrites(queue, index, items) ==
    SubSeq(queue, 1, index + 1) \o items \o SubSeq(queue, index + 2 + Len(items), Len(queue))

\* nextQueue.splice(index + 1, 0, ...items)
Splice(queue, index, items) ==
    SubSeq(queue, 1, index + 1) \o items \o SubSeq(queue, index + 2, Len(queue))

\* StandardFollowUp pushing the follow-up at the end of the queue
StandardFollowUpAtEnd(nextQueue, index, q, a, qMap) ==
    IF /\ a \in DOMAIN q.followUp
       /\ q.followUp[a] # 0
       /\ q.followUp[a] \in DOMAIN qMap
       /\ ~QueueHas(nextQueue, qMap[q.followUp[a]].id)
    THEN Append(nextQueue, qMap[q.followUp[a]])
    ELSE nextQueue

\* StandardFollowUp ending the queue at the answered question when the
\* follow-up id names no question of the pool
StandardFollowUpDanglingCutsQueue(nextQueue, index, q, a, qMap) ==
    IF a \in DOMAIN q.followUp /\ q.followUp[a] # 0 /\ q.followUp[a] \notin DOMAIN qMap
    THEN SubSeq(nextQueue, 1, index + 1)
    ELSE IF /\ a \in DOMAIN q.followUp
            /\ q.followUp[a] # 0
            /\ q.followUp[a] \in DOMAIN qMap
            /\ ~QueueHas(nextQueue, qMap[q.followUp[a]].id)
    THEN Splice(nextQueue, index, <<qMap[q.followUp[a]]>>)
    ELSE nextQueue

\* the standard follow-up block, for a button answer a
StandardFollowUp(nextQueue, index, q, a, qMap) ==
    IF /\ a \in DOMAIN q.followUp
       /\ q.followUp[a] # 0
       /\ q.followUp[a] \in DOMAIN qMap
       /\ ~QueueHas(nextQueue, qMap[q.followUp[a]].id)
    THEN Splice(nextQueue, index, <<qMap[q.followUp[a]]>>)
    ELSE nextQueue

\* SpecialInjection pushing the work-comp question ahead of the California one
SpecialInjectionWorkCompFirst(nextQueue, index, q, answer, qMap) ==
    IF q.id = StateQuestionId
    THEN LET california ==
                 IF /\ answer.kind = "list"
                    /\ \E i \in 1..Len(answer.val) : answer.val[i] = "California"
                    /\ CaliforniaQuestionId \in DOMAIN qMap
                    /\ ~QueueHas(nextQueue, qMap[CaliforniaQuestionId].id)
                 THEN <<qMap[CaliforniaQuestionId]>> ELSE <<>>
             workComp ==
                 IF /\ WorkCompQuestionId \in DOMAIN qMap
                    /\ ~QueueHas(nextQueue, qMap[WorkCompQuestionId].id)
                 THEN <<qMap[WorkCompQuestionId]>> ELSE <<>>
         IN Splice(nextQueue, index, workComp \o california)
    ELSE nextQueue

\* the block for currentQuestion.id === 9
SpecialInjection(nextQueue, index, q, answer, qMap) ==
    IF q.id = StateQuestionId
    THEN LET california ==
                 IF /\ answer.kind = "list"
                    /\ \E i \in 1..Len(answer.val) : answer.val[i] = "California"
                    /\ CaliforniaQuestionId \in DOMAIN qMap
                    /\ ~QueueHas(nextQueue, qMap[CaliforniaQuestionId].id)
                 THEN <<qMap[CaliforniaQuestionId]>> ELSE <<>>
             workComp ==
                 IF /\ WorkCompQuestionId \in DOMAIN qMap
                    /\ ~QueueHas(nextQueue, qMap[WorkCompQuestionId].id)
                 THEN <<qMap[WorkCompQuestionId]>> ELSE <<>>
         IN Splice(nextQueue, index, california \o workComp)
    ELSE nextQueue

\* handleAnswer without the return that ends the jump branch: the standard
\* follow-up and the special injection run on the jump's queue
handleAnswerJumpFallsThrough(queue, index, sc, complete, ans, qMap, answer) ==
    LET currentQuestion == queue[index + 1]
        recorded == (currentQuestion.id :> answer) @@ ans
        scored == IsButtonAnswer(currentQuestion) /\ IsAnswerToken(answer)
        a == answer.val[1]
        newScore == IF scored THEN sc + currentQuestion.riskPoints[a] ELSE sc
        jump == scored /\ currentQuestion.isInitial /\ a = "Yes"
        questionIdsToInject == INDUSTRY_QUESTION_SETS(currentQuestion.id)
        jumped == IF jump /\ Len(questionIdsToInject) > 0
                  THEN CombinedQueue(queue, index, questionIdsToInject, qMap)
                  ELSE queue
        afterFollowUp == IF scored THEN StandardFollowUp(jumped, index, currentQuestion, a, qMap)
                         ELSE jumped
        nextQueue == SpecialInjection(afterFollowUp, index, currentQuestion, answer, qMap)
        more == index + 1 < Len(nextQueue)
    IN [queue |-> nextQueue, index |-> IF more THEN index + 1 ELSE index,
        score |-> newScore, complete |-> IF more THEN complete ELSE TRUE,
        answers |-> recorded]

\* handleAnswer going on to the next queued question when the classification
\* table has no list for the answered question
handleAnswerNoRouteAdvances(queue, index, sc, complete, ans, qMap, answer) ==
    LET currentQuestion == queue[index + 1]
        recorded == (currentQuestion.id :> answer) @@ ans
        scored == IsButtonAnswer(currentQuestion) /\ IsAnswerToken(answer)
        a == answer.val[1]
        newScore == IF scored THEN sc + currentQuestion.riskPoints[a] ELSE sc
        questionIdsToInject == INDUSTRY_QUESTION_SETS(currentQuestion.id)
    IN IF scored /\ currentQuestion.isInitial /\ a = "Yes" /\ Len(questionIdsToInject) > 0
       THEN [queue |-> CombinedQueue(queue, index, questionIdsToInject, qMap),
             index |-> index + 1, score |-> newScore, complete |-> complete,
             answers |-> recorded]
       ELSE LET afterFollowUp == IF scored
                                 THEN StandardFollowUp(queue, index, currentQuestion, a, qMap)
                                 ELSE queue
                nextQueue == SpecialInjection(afterFollowUp, index, currentQuestion, answer, qMap)
                more == index + 1 < Len(nextQueue)
            IN [queue |-> nextQueue, index |-> IF more THEN index + 1 ELSE index,
                score |-> newScore, complete |-> IF more THEN complete ELSE TRUE,
                answers |-> recorded]

\* the state handleAnswer(answer) sets, from the state its closure sees
handleAnswer(queue, index, sc, complete, ans, qMap, answer) ==
    LET currentQuestion == queue[index + 1]
        recorded == (currentQuestion.id :> answer) @@ ans
        scored == IsButtonAnswer(currentQuestion) /\ IsAnswerToken(answer)
        a == answer.val[1]
        newScore == IF scored THEN sc + currentQuestion.riskPoints[a] ELSE sc
    IN IF scored /\ currentQuestion.isInitial /\ a = "Yes"
       THEN LET questionIdsToInject == INDUSTRY_QUESTION_SETS(currentQuestion.id)
            IN IF Len(questionIdsToInject) > 0
               THEN [queue |-> CombinedQueue(queue, index, questionIdsToInject, qMap),
                     index |-> index + 1, score |-> newScore, complete |-> complete,
                     answers |-> recorded]
               ELSE [queue |-> queue, index |-> index, score |-> newScore, complete |-> TRUE,
                     answers |-> recorded]
       ELSE LET afterFollowUp == IF scored
                                 THEN StandardFollowUp(queue, index, currentQuestion, a, qMap)
                                 ELSE queue
                nextQueue == SpecialInjection(afterFollowUp, index, currentQuestion, answer, qMap)
                more == index + 1 < Len(nextQueue)
            IN [queue |-> nextQueue, index |-> IF more THEN index + 1 ELSE index,
                score |-> newScore, complete |-> IF more THEN complete ELSE TRUE,
                answers |-> recorded]

\* the values the controls rendered for the current question pass to handleAnswer
\* (no control is rendered for controlType 'text')
OfferedAnswers(q) ==
    CASE q.controlType \in {"undefined", "buttons"} -> {Str("Yes"), Str("No"), Str("N/A")}
      [] q.controlType = "yes_no" -> {Str("Yes"), Str("No")}
      [] q.controlType = "numeric" -> {Str("7")}
      [] q.controlType = "business_info" -> {Str("Name: Acme, Years: 5, Employees: 20, Revenue: $5M")}
      [] q.controlType = "multi_state_select" ->
             {List(<<"California">>), List(<<"Texas">>), List(<<"California", "Texas">>)}
      [] q.controlType = "work_comp_code" -> {List(<<"8810">>)}
      [] OTHER -> {}

\* initializeQuiz without the fallback to the first question
initializeQuizNoFallback(qs) ==
    LET IsInit(q) == q.isInitial
    IN [map |-> BuildMap(qs), queue |-> SelectSeq(qs, IsInit),
        index |-> 0, score |-> 0, complete |-> FALSE, answers |-> [id \in {} |-> 0]]

\* the state initializeQuiz sets for a non-empty pool
initializeQuiz(qs) ==
    LET IsInit(q) == q.isInitial
        initialQueue == SelectSeq(qs, IsInit)
    IN [map |-> BuildMap(qs),
        queue |-> IF Len(initialQueue) = 0 /\ Len(qs) > 0 THEN <<qs[1]>> ELSE initialQueue,
        index |-> 0, score |-> 0, complete |-> FALSE, answers |-> [id \in {} |-> 0]]

---------------------------------------------------------------------------
(* QuestionForm / QuestionEditor: the edit handlers *)

\* JSON.stringify(q.followUp): undefined for an absent property
FollowUpJson(q) == <<q.fuDef, q.followUp>>

\* ReplaceQuestion without the id test of the map callback
ReplaceQuestionEverywhere(qs, updatedQuestion) == [i \in 1..Len(qs) |-> updatedQuestion]

\* questions.map(q => q.id === updatedQuestion.id ? updatedQuestion : q)
ReplaceQuestion(qs, updatedQuestion) ==
    [i \in 1..Len(qs) |-> IF qs[i].id = updatedQuestion.id THEN updatedQuestion ELSE qs[i]]

\* handleQuestionChange(updatedQuestion), run on the questions it finds in state
handleQuestionChange(qs, updatedQuestion) ==
    LET oldQuestion == qs[FindIndex(qs, updatedQuestion.id)]
        followUpChanged == FollowUpJson(oldQuestion) # FollowUpJson(updatedQuestion)
        newQuestions == ReplaceQuestion(qs, updatedQuestion)
    IN IF followUpChanged THEN renumberQuestions(newQuestions)
       ELSE [ok |-> TRUE, qs |-> newQuestions]

\* delete obj[key]
DeleteKey(f, key) == [a \in (DOMAIN f) \ {key} |-> f[a]]

\* handleInputChange('controlType', newType): the question passed to onChange.
\* { ...question } copies the properties, so riskPoints and followUp are the
\* objects of the question held in state.
ControlTypeUpdate(question, newType) ==
    IF newType \in {"text", "numeric", "multi_state_select", "work_comp_code", "business_info"}
    THEN [question EXCEPT !.controlType = newType, !.riskPoints = Pts(0, 0, 0),
                          !.followUp = NoFollowUp, !.fuDef = TRUE]
    ELSE IF newType = "yes_no"
    THEN [question EXCEPT !.controlType = newType, !.riskPoints["N/A"] = 0,
                          !.followUp = DeleteKey(@, "N/A")]
    ELSE [question EXCEPT !.controlType = newType]

\* the question object in state after handleInputChange('controlType', newType)
\* wrote through the shared riskPoints and followUp objects
ControlTypeAliased(question, newType) ==
    IF newType = "yes_no"
    THEN [question EXCEPT !.riskPoints["N/A"] = 0, !.followUp = DeleteKey(@, "N/A")]
    ELSE question

\* the snapshot the editor held when handleInputChange('controlType', newType)
\* was called, as its question objects read once the handler has run
PreChangeSnapshot(qs, id, newType) ==
    ReplaceQuestion(qs, ControlTypeAliased(qs[FindIndex(qs, id)], newType))

\* handleInputChange('controlType', newType) on the selected question
handleControlTypeChange(qs, id, newType) ==
    LET question == qs[FindIndex(qs, id)]
    IN handleQuestionChange(PreChangeSnapshot(qs, id, newType),
                            ControlTypeUpdate(question, newType))

\* handleRiskPointChange(answer, value) with parseInt(value, 10) = points
handleRiskPointChange(qs, id, answer, points) ==
    handleQuestionChange(qs, [qs[FindIndex(qs, id)] EXCEPT !.riskPoints[answer] = points])

\* handleFollowUpChange(answer, value); value 0 stands for '' (None)
handleFollowUpChange(qs, id, answer, value) ==
    LET question == qs[FindIndex(qs, id)]
        updatedFollowUp == IF value = 0 THEN DeleteKey(question.followUp, answer)
                           ELSE (answer :> value) @@ question.followUp
    IN handleQuestionChange(qs, [question EXCEPT !.followUp = updatedFollowUp, !.fuDef = TRUE])

\* NewId counting the questions instead of taking the largest id
NewIdByLength(qs) == Len(qs) + 1

\* Math.max(...questions.map(q => q.id)) + 1, or 1
NewId(qs) == IF Len(qs) > 0 THEN (CHOOSE m \in Ids(qs) : \A x \in Ids(qs) : x <= m) + 1 ELSE 1

NewQuestion(newId) ==
    [id |-> newId, text |-> "New question text...", number |-> <<>>, isInitial |-> FALSE,
     controlType |-> "undefined", riskPoints |-> Pts(0, 0, 0), followUp |-> NoFollowUp,
     fuDef |-> FALSE]

\* handleAddQuestion
handleAddQuestion(qs) == renumberQuestions(Append(qs, NewQuestion(NewId(qs))))

\* StripFollowUp looking at the Yes entry only
StripFollowUpYesOnly(q, id) ==
    IF "Yes" \in DOMAIN q.followUp /\ q.followUp["Yes"] = id
    THEN [q EXCEPT !.followUp = DeleteKey(@, "Yes"), !.fuDef = TRUE]
    ELSE q

\* the map step of handleDeleteQuestion
StripFollowUp(q, id) ==
    IF \E a \in DOMAIN q.followUp : q.followUp[a] = id
    THEN [q EXCEPT !.followUp = [a \in {b \in DOMAIN q.followUp : q.followUp[b] # id} |-> q.followUp[a]],
                   !.fuDef = TRUE]
    ELSE q

\* updatedQuestionsWithoutTarget
WithoutTarget(qs, id) ==
    LET Other(q) == q.id # id
        kept == SelectSeq(qs, Other)
    IN [i \in 1..Len(kept) |-> StripFollowUp(kept[i], id)]

\* handleDeleteQuestion removing the question and leaving the other questions as they are
handleDeleteQuestionNoCascade(qs, id) ==
    LET Other(q) == q.id # id IN renumberQuestions(SelectSeq(qs, Other))

\* handleDeleteQuestion(id), confirmed
handleDeleteQuestion(qs, id) == renumberQuestions(WithoutTarget(qs, id))

\* handleReorder putting the dragged question after the target
handleReorderAfterTarget(qs, draggedId, targetId) ==
    IF FindIndex(qs, draggedId) = 0 THEN [ok |-> TRUE, qs |-> qs]
    ELSE LET draggedItem == qs[FindIndex(qs, draggedId)]
             NotDragged(q) == q.id # draggedId
             remainingItems == SelectSeq(qs, NotDragged)
             targetIndex == FindIndex(remainingItems, targetId)
         IN IF targetIndex = 0 THEN [ok |-> TRUE, qs |-> qs]
            ELSE renumberQuestions(SubSeq(remainingItems, 1, targetIndex) \o <<draggedItem>>
                                   \o SubSeq(remainingItems, targetIndex + 1, Len(remainingItems)))

\* handleReorder(draggedId, targetId)
handleReorder(qs, draggedId, targetId) ==
    IF FindIndex(qs, draggedId) = 0 THEN [ok |-> TRUE, qs |-> qs]
    ELSE LET draggedItem == qs[FindIndex(qs, draggedId)]
             NotDragged(q) == q.id # draggedId
             remainingItems == SelectSeq(qs, NotDragged)
             targetIndex == FindIndex(remainingItems, targetId)
         IN IF targetIndex = 0 THEN [ok |-> TRUE, qs |-> qs]
            ELSE renumberQuestions(SubSeq(remainingItems, 1, targetIndex - 1) \o <<draggedItem>>
                                   \o SubSeq(remainingItems, targetIndex, Len(remainingItems)))

\* TreeView: the ids of the TreeItems rendered (roots and what their children reach)
RECURSIVE TreeItems(_, _, _)
TreeItems(qs, frontier, seen) ==
    IF frontier \subseteq seen THEN seen
    ELSE TreeItems(qs, UNION {ChildrenOf(qs, id) : id \in frontier}, seen \cup frontier)

Visible(qs) == TreeItems(qs, RootIds(qs), {})

\* QuestionEditor on mount: useState(initialQuestions), then the effect
EditorMount(qs) == LET r == renumberQuestions(qs) IN IF r.ok THEN r.qs ELSE qs

---------------------------------------------------------------------------
(* Pools the database can hold: the default set of quizData.ts cut down by   *)
(* the editor (delete, reorder, flags, control types, points, follow-ups)    *)
(* and saved.                                                                *)

Plain(id) == Q(id, FALSE, "buttons", Pts(3, 0, 0), NoFollowUp)

Industry(id, ct, yes) == Q(id, TRUE, ct, Pts(yes, 0, 0), NoFollowUp)

\* an industry question and two questions of its classification list
ScenarioPool == <<Industry(1, "buttons", 5), Plain(200), Plain(100)>>

\* two industry questions, questions of their lists, a follow-up below one of them
TwoIndustryPool == <<Industry(1, "buttons", 5), Industry(2, "yes_no", 10),
                     Q(200, FALSE, "buttons", Pts(2, 0, 0), "Yes" :> 201), Plain(201), Plain(300)>>

\* an industry question whose classification list names no question of the pool
NoTargetPool == <<Industry(1, "buttons", 5), Plain(10), Plain(11)>>

\* a follow-up chain 2 -> 20 -> 21, no question marked initial
ChainPool == <<Q(2, FALSE, "buttons", Pts(4, 0, 0), "Yes" :> 20),
               Q(20, FALSE, "buttons", Pts(0, 6, 0), "No" :> 21), Plain(21)>>

\* the state question with the questions it injects, then an industry question
StatePool == <<Q(9, TRUE, "multi_state_select", Pts(0, 0, 0), NoFollowUp),
               Industry(1, "buttons", 5),
               Q(600, FALSE, "yes_no", Pts(0, 15, 0), NoFollowUp),
               Q(700, FALSE, "work_comp_code", Pts(0, 0, 0), NoFollowUp),
               Q(200, FALSE, "buttons", Pts(2, 0, 0), NoFollowUp)>>

\* question 9 turned into a button question with a follow-up
ButtonStatePool == <<Q(9, FALSE, "buttons", Pts(1, 0, 0), "Yes" :> 20), Plain(20),
                     Q(700, FALSE, "work_comp_code", Pts(0, 0, 0), NoFollowUp)>>

\* a question of a classification list marked initial, ahead of the industry question
InitialTargetPool == <<Industry(200, "buttons", 2), Industry(1, "yes_no", 5), Plain(100)>>

BasePools == {ScenarioPool, TwoIndustryPool, NoTargetPool, ChainPool, StatePool,
              ButtonStatePool, InitialTargetPool}

\* values typed into the risk-point inputs
RiskPointInputs == {-5, 2}

\* values typed into the number and text inputs
NumberInputs == {<<7>>}

TextInputs == {"edited"}

---------------------------------------------------------------------------
(* State machine *)

SessionOf(s) ==
    /\ questionsMap' = s.map
    /\ questionQueue' = s.queue
    /\ currentQuestionIndex' = s.index
    /\ score' = s.score
    /\ quizComplete' = s.complete
    /\ answers' = s.answers

Init ==
    /\ allQuestions \in BasePools
    /\ LET s == initializeQuiz(allQuestions)
       IN /\ questionsMap = s.map
          /\ questionQueue = s.queue
          /\ currentQuestionIndex = s.index
          /\ score = s.score
          /\ quizComplete = s.complete
          /\ answers = s.answers
    /\ viewMode = "editor"
    /\ questions = EditorMount(allQuestions)
    /\ selectedQuestionId = NoSelection
    /\ editorError = "none"
    /\ lastOp = [op |-> "init"]
    /\ edits = 0
    /\ InitAsync
    /\ db = DatabaseOf(allQuestions)
    /\ storedDb = Persisted(db)

\* AnswerControlsShown without the quizComplete branch ahead of it
AnswerControlsShownWhenComplete(mode, complete, queue, index) ==
    mode = "quiz" /\ index < Len(queue)

\* renderContent renders the answer controls: in quiz mode, while the quiz is
\* not complete and a current question exists
AnswerControlsShown(mode, complete, queue, index) ==
    mode = "quiz" /\ ~complete /\ index < Len(queue)

\* an answer control of the current question is used
HandleAnswer ==
    /\ AnswerControlsShown(viewMode, quizComplete, questionQueue, currentQuestionIndex)
    /\ \E answer \in OfferedAnswers(questionQueue[currentQuestionIndex + 1]) :
         LET r == handleAnswer(questionQueue, currentQuestionIndex, score, quizComplete,
                               answers, questionsMap, answer)
         IN /\ questionQueue' = r.queue
            /\ currentQuestionIndex' = r.index
            /\ score' = r.score
            /\ quizComplete' = r.complete
            /\ answers' = r.answers
            /\ lastOp' = [op |-> "answer", answer |-> answer,
                          question |-> questionQueue[currentQuestionIndex + 1],
                          queue |-> questionQueue, index |-> currentQuestionIndex,
                          score |-> score, complete |-> quizComplete, answers |-> answers]
    /\ UNCHANGED <<dbVars, asyncVars>>
    /\ UNCHANGED <<allQuestions, questionsMap, viewMode, questions, selectedQuestionId,
                   editorError, edits>>

\* the footer button, rendered while the quiz is not complete
ToggleViewMode ==
    /\ ~quizComplete
    /\ viewMode' = IF viewMode = "quiz" THEN "editor" ELSE "quiz"
    /\ questions' = EditorMount(allQuestions)
    /\ selectedQuestionId' = NoSelection
    /\ lastOp' = [op |-> "toggle"]
    /\ UNCHANGED <<allQuestions, quizVars, editorError, dbVars, asyncVars, edits>>

\* the editor's Cancel button
OnCancel ==
    /\ viewMode = "editor"
    /\ viewMode' = "quiz"
    /\ questions' = EditorMount(allQuestions)
    /\ selectedQuestionId' = NoSelection
    /\ lastOp' = [op |-> "cancel"]
    /\ UNCHANGED <<allQuestions, quizVars, editorError, dbVars, asyncVars, edits>>

\* handleSaveQuestions: saveQuestions, loadQuestions, the initializeQuiz effect
HandleSaveQuestions ==
    /\ viewMode = "editor"
    /\ db' = SaveInto(db, questions)
    /\ storedDb' = Persisted(db')
    /\ LET loaded == getQuestions(db')
       IN /\ allQuestions' = loaded
          /\ IF Len(loaded) = 0 THEN UNCHANGED quizVars ELSE SessionOf(initializeQuiz(loaded))
          /\ questions' = EditorMount(loaded)
    /\ viewMode' = "quiz"
    /\ selectedQuestionId' = NoSelection
    /\ lastOp' = [op |-> "save", before |-> questions]
    /\ UNCHANGED <<editorError, asyncVars, edits>>

\* a TreeItem is clicked
SelectQuestion ==
    /\ viewMode = "editor"
    /\ \E id \in Visible(questions) :
         /\ id # selectedQuestionId
         /\ selectedQuestionId' = id
    /\ lastOp' = [op |-> "select"]
    /\ UNCHANGED <<allQuestions, quizVars, viewMode, questions, editorError, dbVars, asyncVars, edits>>

\* the state an edit handler leaves: the new snapshot, or the old one when
\* renumberQuestions threw
Edited(r) ==
    /\ questions' = IF r.ok THEN r.qs ELSE questions
    /\ editorError' = IF r.ok THEN editorError ELSE "RangeError"
    /\ edits' = edits + 1
    /\ UNCHANGED <<allQuestions, quizVars, viewMode, dbVars, asyncVars>>

CanEdit == viewMode = "editor" /\ edits < MaxEdits

FormShown == CanEdit /\ selectedQuestionId \in Ids(questions)

SelectedQuestion == questions[FindIndex(questions, selectedQuestionId)]

HandleAddQuestion ==
    /\ CanEdit
    /\ Edited(handleAddQuestion(questions))
    /\ selectedQuestionId' = NewId(questions)
    /\ lastOp' = [op |-> "add", before |-> questions]

\* the form's Delete button; confirmed is the answer to window.confirm
HandleDeleteQuestion ==
    /\ FormShown
    /\ \E confirmed \in BOOLEAN :
         /\ IF confirmed
            THEN /\ Edited(handleDeleteQuestion(questions, selectedQuestionId))
                 /\ selectedQuestionId' = NoSelection
            ELSE /\ Edited([ok |-> TRUE, qs |-> questions])
                 /\ UNCHANGED selectedQuestionId
         /\ lastOp' = [op |-> "delete", id |-> selectedQuestionId, confirmed |-> confirmed,
                       before |-> questions]

\* a TreeItem is dropped on another one
HandleReorder ==
    /\ CanEdit
    /\ \E draggedId \in Visible(questions), targetId \in Visible(questions) :
         /\ draggedId # targetId
         /\ Edited(handleReorder(questions, draggedId, targetId))
         /\ lastOp' = [op |-> "reorder", draggedId |-> draggedId, targetId |-> targetId,
                       before |-> questions]
    /\ UNCHANGED selectedQuestionId

\* a risk-point input of the form is edited (the inputs exist for button
\* questions, the N/A one not for yes_no); a value parseInt cannot read is ignored
HandleRiskPointChange ==
    /\ FormShown
    /\ IsButtonAnswer(SelectedQuestion)
    /\ \E answer \in Answers, isNumber \in BOOLEAN, points \in RiskPointInputs :
         /\ answer = "N/A" => SelectedQuestion.controlType # "yes_no"
         /\ IF isNumber
            THEN Edited(handleRiskPointChange(questions, selectedQuestionId, answer, points))
            ELSE Edited([ok |-> TRUE, qs |-> questions])
         /\ lastOp' = [op |-> "riskPoint", id |-> selectedQuestionId, answer |-> answer,
                       isNumber |-> isNumber, points |-> points, before |-> questions]
    /\ UNCHANGED selectedQuestionId

\* a follow-up selector of the form is changed: None or any other question
HandleFollowUpChange ==
    /\ FormShown
    /\ IsButtonAnswer(SelectedQuestion)
    /\ \E answer \in Answers, value \in {0} \cup (Ids(questions) \ {selectedQuestionId}) :
         /\ answer = "N/A" => SelectedQuestion.controlType # "yes_no"
         /\ Edited(handleFollowUpChange(questions, selectedQuestionId, answer, value))
         /\ lastOp' = [op |-> "followUp", id |-> selectedQuestionId, answer |-> answer,
                       value |-> value, before |-> questions]
    /\ UNCHANGED selectedQuestionId

\* the control-type selector of the form is changed
HandleControlTypeChange ==
    /\ FormShown
    /\ \E newType \in ControlTypes \ {"undefined"} :
         /\ Edited(handleControlTypeChange(questions, selectedQuestionId, newType))
         /\ lastOp' = [op |-> "controlType", id |-> selectedQuestionId, newType |-> newType,
                       before |-> questions,
                       snapshot |-> PreChangeSnapshot(questions, selectedQuestionId, newType)]
    /\ UNCHANGED selectedQuestionId

\* handleInputChange for the isInitial checkbox, the number input and the text area
HandleInputChange ==
    /\ FormShown
    /\ \E updated \in {[SelectedQuestion EXCEPT !.isInitial = ~@]}
                      \cup {[SelectedQuestion EXCEPT !.number = n] : n \in NumberInputs}
                      \cup {[SelectedQuestion EXCEPT !.text = t] : t \in TextInputs} :
         /\ Edited(handleQuestionChange(questions, updated))
         /\ lastOp' = [op |-> "input", id |-> selectedQuestionId, before |-> questions]
    /\ UNCHANGED selectedQuestionId

Next ==
    \/ HandleAnswer
    \/ ToggleViewMode
    \/ OnCancel
    \/ HandleSaveQuestions
    \/ SelectQuestion
    \/ HandleAddQuestion
    \/ HandleDeleteQuestion
    \/ HandleReorder
    \/ HandleRiskPointChange
    \/ HandleFollowUpChange
    \/ HandleControlTypeChange
    \/ HandleInputChange

Spec == Init /\ [][Next]_vars

(* The editor alone: one editing session, not saved *)

NextEditor ==
    \/ SelectQuestion
    \/ HandleAddQuestion
    \/ HandleDeleteQuestion
    \/ HandleReorder
    \/ HandleRiskPointChange
    \/ HandleFollowUpChange
    \/ HandleControlTypeChange
    \/ HandleInputChange

SpecEditor == Init /\ [][NextEditor]_vars

(* The quiz alone: one session on a saved pool *)

\* the snapshots one edit handler makes of qs
EditSuccessors(qs) ==
    LET forms == Visible(qs)
        buttons == {id \in forms : IsButtonAnswer(qs[FindIndex(qs, id)])}
        Keys(id) == IF qs[FindIndex(qs, id)].controlType = "yes_no" THEN {"Yes", "No"} ELSE Answers
        outcomes ==
            {handleAddQuestion(qs)}
            \cup {handleDeleteQuestion(qs, id) : id \in forms}
            \cup {handleReorder(qs, d[1], d[2]) : d \in {e \in forms \X forms : e[1] # e[2]}}
            \cup UNION {{handleRiskPointChange(qs, id, k[1], k[2]) : k \in Keys(id) \X RiskPointInputs} :
                        id \in buttons}
            \cup UNION {{handleFollowUpChange(qs, id, k[1], k[2]) :
                           k \in Keys(id) \X ({0} \cup (Ids(qs) \ {id}))} : id \in buttons}
            \cup {handleControlTypeChange(qs, k[1], k[2]) : k \in forms \X (ControlTypes \ {"undefined"})}
            \cup {handleQuestionChange(qs, [qs[FindIndex(qs, id)] EXCEPT !.isInitial = ~@]) : id \in forms}
    IN {r.qs : r \in {o \in outcomes : o.ok}}

\* what the database holds after the editor saved a base pool, as loaded or
\* after one edit
QuizPools ==
    {getQuestions(saveQuestions(qs)) :
       qs \in BasePools \cup UNION {EditSuccessors(EditorMount(p)) : p \in BasePools}}

InitQuiz ==
    /\ allQuestions \in QuizPools
    /\ LET s == initializeQuiz(allQuestions)
       IN /\ questionsMap = s.map
          /\ questionQueue = s.queue
          /\ currentQuestionIndex = s.index
          /\ score = s.score
          /\ quizComplete = s.complete
          /\ answers = s.answers
    /\ viewMode = "quiz"
    /\ questions = EditorMount(allQuestions)
    /\ selectedQuestionId = NoSelection
    /\ editorError = "none"
    /\ lastOp = [op |-> "init"]
    /\ edits = 0
    /\ InitAsync
    /\ db = DatabaseOf(allQuestions)
    /\ storedDb = Persisted(db)

NextQuiz == HandleAnswer

SpecQuiz == InitQuiz /\ [][NextQuiz]_vars

---------------------------------------------------------------------------
(* Properties *)

QueueIds == [i \in 1..Len(questionQueue) |-> questionQueue[i].id]

Answered == lastOp.op = "answer"

\* the token of the last answer, "" when it was not a button answer
LastToken ==
    IF Answered /\ IsButtonAnswer(lastOp.question) /\ IsAnswerToken(lastOp.answer)
    THEN lastOp.answer.val[1] ELSE ""

\* the question of the pool with this id
PoolQuestion(id) == allQuestions[FindLast(allQuestions, id)]

\* C1: in every session state the queue holds each question id at most once
C1_QueueIdsUnique ==
    \A i, j \in 1..Len(questionQueue) : questionQueue[i].id = questionQueue[j].id => i = j

\* the last answer was a "Yes" to an initial button question with a non-empty
\* classification list
Jumped ==
    /\ LastToken = "Yes"
    /\ lastOp.question.isInitial
    /\ Len(INDUSTRY_QUESTION_SETS(lastOp.question.id)) > 0

\* C2: a jump leaves the queue up to and including the answered question,
\* followed by the questions of the classification list that exist in the pool,
\* in the list's order and nothing else; no other question that was after the
\* answered one remains there; currentIndex advances by one, onto the first
\* question of the resolved list
C2_JumpReplacesTail ==
    Jumped =>
        LET L == INDUSTRY_QUESTION_SETS(lastOp.question.id)
            InPool(id) == id \in Ids(allQuestions)
            resolved == SelectSeq(L, InPool)
            kept == lastOp.index + 1
        IN /\ Len(questionQueue) = kept + Len(resolved)
           /\ \A i \in 1..kept : questionQueue[i] = lastOp.queue[i]
           /\ \A i \in 1..Len(resolved) : questionQueue[kept + i] = PoolQuestion(resolved[i])
           /\ \A k \in (kept + 1)..Len(lastOp.queue) :
                (\A i \in 1..Len(L) : L[i] # lastOp.queue[k].id)
                    => \A m \in (kept + 1)..Len(questionQueue) : questionQueue[m].id # lastOp.queue[k].id
           /\ currentQuestionIndex = lastOp.index + 1
           /\ Len(resolved) > 0 => questionQueue[currentQuestionIndex + 1].id = resolved[1]
           /\ quizComplete = lastOp.complete

\* a jump that dropped both a question that was waiting in the queue and an id
\* of the list that the pool lacks
C2_Witness ==
    /\ Jumped
    /\ Len(lastOp.queue) > lastOp.index + 1
    /\ Len(questionQueue) > lastOp.index + 1
    /\ \E i \in 1..Len(INDUSTRY_QUESTION_SETS(lastOp.question.id)) :
         INDUSTRY_QUESTION_SETS(lastOp.question.id)[i] \notin Ids(allQuestions)

\* the last answer was a button answer V to a non-initial question Q whose
\* followUp[V] names a question of the pool that was nowhere in the queue
FollowUpDue ==
    /\ LastToken # ""
    /\ ~lastOp.question.isInitial
    /\ LastToken \in DOMAIN lastOp.question.followUp
    /\ lastOp.question.followUp[LastToken] \in Ids(allQuestions)
    /\ ~QueueHas(lastOp.queue, lastOp.question.followUp[LastToken])

\* the special injection of the same transition puts question 700 in
WorkCompInjected ==
    /\ lastOp.question.id = StateQuestionId
    /\ WorkCompQuestionId \in Ids(allQuestions)
    /\ ~QueueHas(lastOp.queue, WorkCompQuestionId)
    /\ lastOp.question.followUp[LastToken] # WorkCompQuestionId

\* C3 as claimed: the follow-up F is immediately after Q and is the current
\* question, for every such Q
C3_FollowUpNextAlways ==
    FollowUpDue =>
        /\ currentQuestionIndex = lastOp.index + 1
        /\ questionQueue[lastOp.index + 2].id = lastOp.question.followUp[LastToken]

\* C3 amended: F is immediately after Q and is the current question, except
\* when Q has id 9 and question 700 exists and is not queued: then 700 is put
\* between them, 700 is the current question and F follows it
C3_FollowUpNext ==
    FollowUpDue =>
        /\ currentQuestionIndex = lastOp.index + 1
        /\ ~quizComplete
        /\ IF WorkCompInjected
           THEN /\ questionQueue[lastOp.index + 2].id = WorkCompQuestionId
                /\ questionQueue[lastOp.index + 3].id = lastOp.question.followUp[LastToken]
           ELSE questionQueue[lastOp.index + 2].id = lastOp.question.followUp[LastToken]

\* a follow-up was inserted in front of questions already waiting in the queue
C3_Witness ==
    /\ FollowUpDue
    /\ ~WorkCompInjected
    /\ Len(lastOp.queue) > lastOp.index + 1
    /\ questionQueue[lastOp.index + 2].id = lastOp.question.followUp[LastToken]

\* C4: once the quiz is complete no step changes score, queue, currentIndex or
\* answers
C4_CompleteIsTerminal ==
    [][quizComplete => /\ quizComplete'
                       /\ score' = score
                       /\ questionQueue' = questionQueue
                       /\ currentQuestionIndex' = currentQuestionIndex
                       /\ answers' = answers]_vars

\* a session completed by an answer
C4_Witness == quizComplete /\ Answered /\ score > 0

\* C5: a session is complete or has a current question
C5_RunningHasQuestion == quizComplete \/ currentQuestionIndex < Len(questionQueue)

Yes == Str("Yes")

No == Str("No")

C7_ScoreMonotone == Answered => score >= lastOp.score

Deleted == lastOp.op = "delete" /\ lastOp.confirmed

\* the followUp entries of q whose target is not id
EntriesNotTo(q, id) == {<<a, q.followUp[a]>> : a \in {b \in DOMAIN q.followUp : q.followUp[b] # id}}

\* C8: after Delete(X), X is not in the pool, no followUp entry targets X, and
\* every other question is still there, in the same order, with its other
\* followUp entries and fields
C8_CascadeDelete ==
    Deleted =>
        LET X == lastOp.id
            Other(q) == q.id # X
            others == SelectSeq(lastOp.before, Other)
        IN /\ X \notin Ids(questions)
           /\ \A i \in 1..Len(questions) : \A a \in DOMAIN questions[i].followUp :
                questions[i].followUp[a] # X
           /\ Len(questions) = Len(others)
           /\ \A i \in 1..Len(others) :
                /\ questions[i].id = others[i].id
                /\ EntriesNotTo(questions[i], X) = EntriesNotTo(others[i], X)
                /\ [questions[i] EXCEPT !.number = <<>>, !.followUp = NoFollowUp, !.fuDef = TRUE]
                     = [others[i] EXCEPT !.number = <<>>, !.followUp = NoFollowUp, !.fuDef = TRUE]

\* a question was deleted that a "No" entry of a remaining question named, while
\* that question keeps another entry
C8_Witness ==
    /\ Deleted
    /\ \E i \in 1..Len(lastOp.before) :
         /\ lastOp.before[i].id # lastOp.id
         /\ "No" \in DOMAIN lastOp.before[i].followUp
         /\ lastOp.before[i].followUp["No"] = lastOp.id

\* C9: every renumberQuestions call of the editor returns
C9_RenumberingReturns == editorError = "none"

\* renumberQuestions(renumberQuestions(qs)); an exception of the inner call
\* is the outcome of the expression
RenumberTwice(qs) ==
    LET r == renumberQuestions(qs) IN IF r.ok THEN renumberQuestions(r.qs) ELSE r

\* C10: renumbering the renumbered pool gives every question the number the
\* first renumbering gave it
C10_RenumberIdempotent == RenumberTwice(questions) = renumberQuestions(questions)

\* a snapshot with a hand-edited number and a child question: renumbering
\* changes it
C10_Witness ==
    /\ renumberQuestions(questions).ok
    /\ renumberQuestions(questions).qs # questions
    /\ \E i \in 1..Len(questions) : Len(renumberQuestions(questions).qs[i].number) >= 2

\* the session state is the one initializeQuiz set: no answer was given yet
FreshSession == lastOp.op \in {"init", "save"} /\ Len(allQuestions) > 0

InitialIndices == {i \in 1..Len(allQuestions) : allQuestions[i].isInitial}

\* C11: after initializeQuiz on a non-empty pool the queue is the questions
\* marked initial, in pool order, or the first pool question alone when none is
\* marked; currentIndex = 0, score = 0, not complete, no answers
C11_InitialState ==
    FreshSession =>
        /\ IF InitialIndices = {}
           THEN questionQueue = <<allQuestions[1]>>
           ELSE /\ Len(questionQueue) = Cardinality(InitialIndices)
                /\ \A i \in InitialIndices :
                     questionQueue[Cardinality({j \in InitialIndices : j <= i})] = allQuestions[i]
        /\ currentQuestionIndex = 0
        /\ score = 0
        /\ ~quizComplete
        /\ DOMAIN answers = {}

\* a fresh session on a pool where an unmarked question stands between two
\* initial ones
C11_Witness ==
    /\ FreshSession
    /\ Len(questionQueue) >= 2
    /\ \E i, j, k \in 1..Len(allQuestions) :
         /\ i < j /\ j < k
         /\ allQuestions[i].isInitial /\ ~allQuestions[j].isInitial /\ allQuestions[k].isInitial

\* a fresh session on a pool without any initial question
C11_FallbackWitness == FreshSession /\ InitialIndices = {} /\ Len(allQuestions) > 1

(* The quiz with a respondent who answers whenever an answer control is shown *)

SpecQuizLive == InitQuiz /\ [][NextQuiz]_vars /\ WF_vars(HandleAnswer)

\* the current question is rendered without any answer control
Unanswerable ==
    /\ currentQuestionIndex < Len(questionQueue)
    /\ OfferedAnswers(questionQueue[currentQuestionIndex + 1]) = {}

\* C12: a session whose respondent answers every question put to them
\* eventually is complete
C12_SessionCompletes == <>(quizComplete \/ Unanswerable)

\* answeredQuestionsData of renderContent: the rows handed to ScoreView
answeredQuestionsData(queue, ans) ==
    LET HasAnswer(q) == q.id \in DOMAIN ans
        answered == SelectSeq(queue, HasAnswer)
    IN [i \in 1..Len(answered) |-> [text |-> answered[i].text, answer |-> ans[answered[i].id]]]

\* the queue positions holding an answered question, up to position p
AnsweredUpTo(p) == {k \in 1..p : questionQueue[k].id \in DOMAIN answers}

\* C13: at completion the report has, in queue order, one row for each answered
\* question and no other row, and no submission replaced an answer recorded
\* earlier in the session
C13_ReportRows ==
    /\ Answered => lastOp.question.id \notin DOMAIN lastOp.answers
    /\ quizComplete =>
         LET report == answeredQuestionsData(questionQueue, answers)
         IN /\ Len(report) = Cardinality(DOMAIN answers)
            /\ \A id \in DOMAIN answers :
                 \E p \in 1..Len(questionQueue) :
                    /\ questionQueue[p].id = id
                    /\ report[Cardinality(AnsweredUpTo(p))] =
                         [text |-> questionQueue[p].text, answer |-> answers[id]]

Added == lastOp.op = "add"

\* a question as Add must create it: zero risk points, no followUp entry, not
\* initial, a button control type
IsBlankQuestion(q) ==
    /\ q.riskPoints = Pts(0, 0, 0)
    /\ DOMAIN q.followUp = {}
    /\ ~q.isInitial
    /\ IsButtonAnswer(q)

\* C14: handleAddQuestion appends one blank question whose id is the largest
\* existing id plus one (1 on an empty pool); the existing questions keep their
\* order and every field but the number
C14_AddAppends ==
    /\ LET r == handleAddQuestion(<<>>)
       IN r.ok /\ Len(r.qs) = 1 /\ r.qs[1].id = 1 /\ IsBlankQuestion(r.qs[1])
    /\ Added =>
        LET new == questions[Len(questions)]
        IN /\ Len(questions) = Len(lastOp.before) + 1
           /\ \A i \in 1..Len(lastOp.before) : lastOp.before[i].id < new.id
           /\ \E i \in 1..Len(lastOp.before) : lastOp.before[i].id + 1 = new.id
           /\ IsBlankQuestion(new)
           /\ \A i \in 1..Len(lastOp.before) :
                [questions[i] EXCEPT !.number = <<>>] = [lastOp.before[i] EXCEPT !.number = <<>>]

\* a question was added to a pool whose largest id is not its length
C14_Witness ==
    /\ Added
    /\ Len(questions) = Len(lastOp.before) + 1
    /\ questions[Len(questions)].id > Len(questions)
    /\ selectedQuestionId = questions[Len(questions)].id

Reordered == lastOp.op = "reorder"

\* the position of the question with this id in qs
PositionOf(qs, id) == CHOOSE p \in 1..Len(qs) : qs[p].id = id

\* after is before with the question d moved to immediately before t: the same
\* questions, equal in every field but the number, the others in their order
MovedBefore(before, after, d, t) ==
    /\ Len(after) = Len(before)
    /\ Ids(after) = Ids(before)
    /\ \A p, q \in 1..Len(after) : after[p].id = after[q].id => p = q
    /\ PositionOf(after, d) + 1 = PositionOf(after, t)
    /\ \A x, y \in Ids(before) \ {d} :
         PositionOf(before, x) < PositionOf(before, y) => PositionOf(after, x) < PositionOf(after, y)
    /\ \A x \in Ids(before) :
         [after[PositionOf(after, x)] EXCEPT !.number = <<>>]
             = [before[PositionOf(before, x)] EXCEPT !.number = <<>>]

\* C15: Reorder(draggedId, targetId) with two distinct ids of the pool leaves a
\* permutation of the pool with draggedId immediately before targetId, the
\* other questions in their relative order and no field but the number changed
C15_ReorderMovesBefore ==
    Reordered => MovedBefore(lastOp.before, questions, lastOp.draggedId, lastOp.targetId)

\* a question was dragged upwards over at least one other question, and the
\* numbers changed with it
C15_Witness ==
    /\ Reordered
    /\ PositionOf(lastOp.before, lastOp.draggedId) > PositionOf(lastOp.before, lastOp.targetId) + 1
    /\ PositionOf(questions, lastOp.draggedId) + 1 = PositionOf(questions, lastOp.targetId)
    /\ \E x \in Ids(questions) :
         questions[PositionOf(questions, x)].number # lastOp.before[PositionOf(lastOp.before, x)].number

(* The edit handlers called with any id: handleReorder gets the dragged id     *)
(* from the drop's dataTransfer, which need not name a rendered item           *)

\* an id no pool uses
UnknownId == 999

\* the snapshots handleInputChange('number', ...) makes of qs
NumberEdits(qs) ==
    {handleQuestionChange(qs, [qs[FindIndex(qs, id)] EXCEPT !.number = n]).qs :
       id \in Visible(qs), n \in NumberInputs}

InitCalls ==
    /\ allQuestions \in BasePools
    /\ LET s == initializeQuiz(allQuestions)
       IN /\ questionsMap = s.map
          /\ questionQueue = s.queue
          /\ currentQuestionIndex = s.index
          /\ score = s.score
          /\ quizComplete = s.complete
          /\ answers = s.answers
    /\ viewMode = "editor"
    /\ questions \in {EditorMount(allQuestions)} \cup NumberEdits(EditorMount(allQuestions))
    /\ selectedQuestionId = NoSelection
    /\ editorError = "none"
    /\ lastOp = [op |-> "init"]
    /\ edits = 0
    /\ InitAsync
    /\ db = DatabaseOf(allQuestions)
    /\ storedDb = Persisted(db)

\* handleDeleteQuestion(id), confirmed, for any id
CallDeleteQuestion ==
    /\ CanEdit
    /\ \E id \in Ids(questions) \cup {UnknownId} :
         /\ Edited(handleDeleteQuestion(questions, id))
         /\ selectedQuestionId' = IF selectedQuestionId = id THEN NoSelection ELSE selectedQuestionId
         /\ lastOp' = [op |-> "callDelete", id |-> id, before |-> questions]

\* handleReorder(draggedId, targetId) for any two ids
CallReorder ==
    /\ CanEdit
    /\ \E draggedId \in Ids(questions) \cup {UnknownId}, targetId \in Ids(questions) \cup {UnknownId} :
         /\ Edited(handleReorder(questions, draggedId, targetId))
         /\ lastOp' = [op |-> "callReorder", draggedId |-> draggedId, targetId |-> targetId,
                       before |-> questions]
    /\ UNCHANGED selectedQuestionId

NextCalls == CallDeleteQuestion \/ CallReorder

SpecCalls == InitCalls /\ [][NextCalls]_vars

\* the last call was a Delete or a Reorder naming an id that is not in the pool
UnknownIdCall ==
    \/ lastOp.op = "callDelete" /\ lastOp.id \notin Ids(lastOp.before)
    \/ /\ lastOp.op = "callReorder"
       /\ (lastOp.draggedId \notin Ids(lastOp.before) \/ lastOp.targetId \notin Ids(lastOp.before))

C16_ReorderUnknownNoOp == (UnknownIdCall /\ lastOp.op = "callReorder") => questions = lastOp.before

\* the last answer was a "Yes" to an initial button question: the jump rule
JumpTriggered == LastToken = "Yes" /\ lastOp.question.isInitial

\* the ids of the classification list of the answered question that the pool has
ResolvedList ==
    LET InPool(id) == id \in Ids(allQuestions)
    IN SelectSeq(INDUSTRY_QUESTION_SETS(lastOp.question.id), InPool)

\* id was put in the queue by the last answer, without being on the resolved
\* classification list
InjectedOffList(id) ==
    /\ QueueHas(questionQueue, id)
    /\ ~QueueHas(lastOp.queue, id)
    /\ \A i \in 1..Len(ResolvedList) : ResolvedList[i] # id

\* C17: when the jump rule triggers, the transition records the answer, adds
\* riskPoints['Yes'] and either replaces the tail and advances the index or
\* completes the session; it inserts no follow-up of the question and none of
\* the questions 600 and 700, whatever the question's followUp or id
C17_JumpPrecedence ==
    JumpTriggered =>
        /\ answers = (lastOp.question.id :> lastOp.answer) @@ lastOp.answers
        /\ score = lastOp.score + lastOp.question.riskPoints["Yes"]
        /\ \A a \in DOMAIN lastOp.question.followUp : ~InjectedOffList(lastOp.question.followUp[a])
        /\ ~InjectedOffList(CaliforniaQuestionId)
        /\ ~InjectedOffList(WorkCompQuestionId)
        /\ IF Len(INDUSTRY_QUESTION_SETS(lastOp.question.id)) > 0
           THEN /\ Len(questionQueue) = lastOp.index + 1 + Len(ResolvedList)
                /\ \A i \in 1..(lastOp.index + 1) : questionQueue[i] = lastOp.queue[i]
                /\ \A i \in 1..Len(ResolvedList) : questionQueue[lastOp.index + 1 + i].id = ResolvedList[i]
                /\ currentQuestionIndex = lastOp.index + 1
                /\ quizComplete = lastOp.complete
           ELSE /\ questionQueue = lastOp.queue
                /\ currentQuestionIndex = lastOp.index
                /\ quizComplete

\* the jump rule triggered on a question whose followUp['Yes'] names a pool
\* question that is neither queued nor on the classification list
C17_Witness ==
    /\ JumpTriggered
    /\ Len(ResolvedList) > 0
    /\ "Yes" \in DOMAIN lastOp.question.followUp
    /\ lastOp.question.followUp["Yes"] \in Ids(allQuestions)
    /\ ~QueueHas(lastOp.queue, lastOp.question.followUp["Yes"])
    /\ \A i \in 1..Len(ResolvedList) : ResolvedList[i] # lastOp.question.followUp["Yes"]

\* the jump rule triggered on question 9 as a button question, with question
\* 700 in the pool and not queued
C17_StateQuestionWitness ==
    /\ JumpTriggered
    /\ lastOp.question.id = StateQuestionId
    /\ WorkCompQuestionId \in Ids(allQuestions)
    /\ ~QueueHas(lastOp.queue, WorkCompQuestionId)

\* the ids the classification table has an entry for
RoutedIds == 1..6

\* C18: a "Yes" to an initial button question without a classification list
\* completes the session in that transition: riskPoints['Yes'] is added, queue
\* and currentIndex stay as they were, whatever is still waiting in the queue
C18_NoRouteCompletes ==
    (JumpTriggered /\ lastOp.question.id \notin RoutedIds) =>
        /\ quizComplete
        /\ score = lastOp.score + lastOp.question.riskPoints["Yes"]
        /\ questionQueue = lastOp.queue
        /\ currentQuestionIndex = lastOp.index

\* such an answer while an initial question was still waiting, unanswered
C18_Witness ==
    /\ JumpTriggered
    /\ lastOp.question.id \notin RoutedIds
    /\ quizComplete
    /\ score > lastOp.score
    /\ \E k \in (lastOp.index + 2)..Len(questionQueue) :
         questionQueue[k].isInitial /\ questionQueue[k].id \notin DOMAIN answers

(* The quiz on a stored database this editor did not write: getInstance loads *)
(* whatever localStorage holds, and the schema's foreign keys are not         *)
(* enforced, so a follow-up rule can name a question that has no row          *)

\* follow-up rules to the missing questions 50, 51, 52 next to a rule that resolves
DanglingPool ==
    <<Q(7, TRUE, "buttons", Pts(4, 1, 0), ("No" :> 50) @@ ("N/A" :> 20)),
      Q(8, TRUE, "yes_no", Pts(0, 6, 0), "No" :> 51),
      Q(20, FALSE, "buttons", Pts(3, 0, 0), "Yes" :> 52)>>

\* question 9 as a button question with a rule to the missing question 50
DanglingStatePool ==
    <<Q(9, FALSE, "buttons", Pts(1, 0, 0), "Yes" :> 50),
      Q(700, FALSE, "work_comp_code", Pts(0, 0, 0), NoFollowUp)>>

StoredPools == QuizPools \cup {DanglingPool, DanglingStatePool}

InitStored ==
    /\ allQuestions \in StoredPools
    /\ LET s == initializeQuiz(allQuestions)
       IN /\ questionsMap = s.map
          /\ questionQueue = s.queue
          /\ currentQuestionIndex = s.index
          /\ score = s.score
          /\ quizComplete = s.complete
          /\ answers = s.answers
    /\ viewMode = "quiz"
    /\ questions = EditorMount(allQuestions)
    /\ selectedQuestionId = NoSelection
    /\ editorError = "none"
    /\ lastOp = [op |-> "init"]
    /\ edits = 0
    /\ InitAsync
    /\ db = DatabaseOf(allQuestions)
    /\ storedDb = Persisted(db)

SpecStored == InitStored /\ [][NextQuiz]_vars

\* the last answer was a button answer V to a question whose followUp[V] names
\* an id that is not in the pool
DanglingAnswer ==
    /\ LastToken # ""
    /\ LastToken \in DOMAIN lastOp.question.followUp
    /\ lastOp.question.followUp[LastToken] \notin Ids(allQuestions)

\* what handleAnswer sets when the answered question has no followUp entry for
\* the answer given
WithoutEntry ==
    LET bare == [lastOp.question EXCEPT !.followUp = DeleteKey(@, LastToken)]
    IN handleAnswer([lastOp.queue EXCEPT ![lastOp.index + 1] = bare], lastOp.index, lastOp.score,
                    lastOp.complete, lastOp.answers, questionsMap, lastOp.answer)

\* C19: an answer whose followUp entry names an id that is not in the pool
\* inserts no question for it and changes the session exactly as the same answer
\* to the question without that entry: answer recorded, risk points added,
\* index advanced or session complete
C19_DanglingIsNoOp ==
    DanglingAnswer =>
        /\ answers = (lastOp.question.id :> lastOp.answer) @@ lastOp.answers
        /\ score = lastOp.score + lastOp.question.riskPoints[LastToken]
        /\ ~QueueHas(questionQueue, lastOp.question.followUp[LastToken])
        /\ (lastOp.question.id # StateQuestionId /\ ~JumpTriggered) => questionQueue = lastOp.queue
        /\ \/ currentQuestionIndex = lastOp.index + 1 /\ quizComplete = lastOp.complete
           \/ currentQuestionIndex = lastOp.index /\ quizComplete
        /\ Len(questionQueue) = Len(WithoutEntry.queue)
        /\ \A i \in 1..Len(questionQueue) : questionQueue[i].id = WithoutEntry.queue[i].id
        /\ currentQuestionIndex = WithoutEntry.index
        /\ score = WithoutEntry.score
        /\ quizComplete = WithoutEntry.complete
        /\ answers = WithoutEntry.answers

\* an answer with a dangling follow-up while other questions were waiting: the
\* session went on to the next of them
C19_Witness ==
    /\ DanglingAnswer
    /\ Len(lastOp.queue) > lastOp.index + 1
    /\ questionQueue = lastOp.queue
    /\ currentQuestionIndex = lastOp.index + 1
    /\ ~quizComplete

\* an answer with a dangling follow-up to the last question of the queue
C19_CompletesWitness == DanglingAnswer /\ quizComplete /\ lastOp.index + 1 = Len(lastOp.queue)

(* handleAnswer called with any value, on pools as the database returns them *)

\* a stored yes_no question whose N/A columns are set: getQuestions reads
\* RiskPointsNA and the N/A rule whatever the ControlType
YesNoStoredPool ==
    <<Q(8, TRUE, "yes_no", Pts(0, 6, 5), "N/A" :> 20), Q(21, TRUE, "buttons", Pts(1, 0, 0), NoFollowUp),
      Plain(20)>>

SubmitPools == {getQuestions(saveQuestions(p)) : p \in BasePools \cup {DanglingPool, YesNoStoredPool}}

\* the three tokens, a free string, and arrays
SubmittedValues ==
    {Str("Yes"), Str("No"), Str("N/A"), Str("maybe"), List(<<"Yes">>), List(<<"California">>)}

InitSubmit ==
    /\ allQuestions \in SubmitPools
    /\ LET s == initializeQuiz(allQuestions)
       IN /\ questionsMap = s.map
          /\ questionQueue = s.queue
          /\ currentQuestionIndex = s.index
          /\ score = s.score
          /\ quizComplete = s.complete
          /\ answers = s.answers
    /\ viewMode = "quiz"
    /\ questions = EditorMount(allQuestions)
    /\ selectedQuestionId = NoSelection
    /\ editorError = "none"
    /\ lastOp = [op |-> "init"]
    /\ edits = 0
    /\ InitAsync
    /\ db = DatabaseOf(allQuestions)
    /\ storedDb = Persisted(db)

\* handleAnswer(answer) for any value, while a current question is shown
SubmitAnswer ==
    /\ viewMode = "quiz" /\ ~quizComplete /\ currentQuestionIndex < Len(questionQueue)
    /\ \E answer \in SubmittedValues :
         LET r == handleAnswer(questionQueue, currentQuestionIndex, score, quizComplete,
                               answers, questionsMap, answer)
         IN /\ questionQueue' = r.queue
            /\ currentQuestionIndex' = r.index
            /\ score' = r.score
            /\ quizComplete' = r.complete
            /\ answers' = r.answers
            /\ lastOp' = [op |-> "answer", answer |-> answer,
                          question |-> questionQueue[currentQuestionIndex + 1],
                          queue |-> questionQueue, index |-> currentQuestionIndex,
                          score |-> score, complete |-> quizComplete, answers |-> answers]
    /\ UNCHANGED <<dbVars, asyncVars>>
    /\ UNCHANGED <<allQuestions, questionsMap, viewMode, questions, selectedQuestionId,
                   editorError, edits>>

NextSubmit == SubmitAnswer

SpecSubmit == InitSubmit /\ [][NextSubmit]_vars

\* the tokens the buttons of q stand for
LegalTokens(q) == IF q.controlType = "yes_no" THEN {"Yes", "No"} ELSE Answers

\* the value is not a legal token for the control type of q
Malformed(q, answer) ==
    ~(IsButtonAnswer(q) /\ answer.kind = "string" /\ answer.val[1] \in LegalTokens(q))

\* the last answer was recorded and nothing else happened but the special
\* injection for question 9 and the step to the next question: the score is the
\* same, the queue kept its questions and got no other one
RecordedOnly ==
    /\ answers = (lastOp.question.id :> lastOp.answer) @@ lastOp.answers
    /\ score = lastOp.score
    /\ \A k \in 1..Len(lastOp.queue) : QueueHas(questionQueue, lastOp.queue[k].id)
    /\ \A k \in 1..Len(questionQueue) :
         ~QueueHas(lastOp.queue, questionQueue[k].id)
             => /\ lastOp.question.id = StateQuestionId
                /\ questionQueue[k].id \in {CaliforniaQuestionId, WorkCompQuestionId}
    /\ \/ currentQuestionIndex = lastOp.index + 1 /\ quizComplete = lastOp.complete
       \/ currentQuestionIndex = lastOp.index /\ quizComplete

C20_NotATokenRecordedOnly ==
    (Answered /\ ~(IsButtonAnswer(lastOp.question) /\ IsAnswerToken(lastOp.answer))) => RecordedOnly

\* question 9 was answered and the jump rule did not trigger
StateAnswered == Answered /\ lastOp.question.id = StateQuestionId /\ ~JumpTriggered

\* how often the question id stands in the queue
Occurrences(queue, id) == Cardinality({k \in 1..Len(queue) : queue[k].id = id})

\* the last answer is a list naming California
NamesCalifornia ==
    /\ lastOp.answer.kind = "list"
    /\ \E i \in 1..Len(lastOp.answer.val) : lastOp.answer.val[i] = "California"

\* question 600 is due: California named, 600 in the pool and not queued
CaliforniaDue ==
    /\ NamesCalifornia
    /\ CaliforniaQuestionId \in Ids(allQuestions)
    /\ ~QueueHas(lastOp.queue, CaliforniaQuestionId)

\* question 700 is due: in the pool and not queued
WorkCompDue == WorkCompQuestionId \in Ids(allQuestions) /\ ~QueueHas(lastOp.queue, WorkCompQuestionId)

\* C21: when question 9 is answered without a jump, whatever its control type,
\* 700 is put in the queue if it is in the pool and not queued, and 600 if also
\* the answer is a list with 'California' and 600 is in the pool and not queued;
\* they stand right after question 9, 600 ahead of 700; a question that is
\* queued already is not put in again
C21_SpecialInjection ==
    StateAnswered =>
        LET first == lastOp.index + 2
        IN /\ CaliforniaDue => questionQueue[first].id = CaliforniaQuestionId
           /\ WorkCompDue => questionQueue[IF CaliforniaDue THEN first + 1 ELSE first].id = WorkCompQuestionId
           /\ Occurrences(questionQueue, CaliforniaQuestionId)
                = Occurrences(lastOp.queue, CaliforniaQuestionId) + (IF CaliforniaDue THEN 1 ELSE 0)
           /\ Occurrences(questionQueue, WorkCompQuestionId)
                = Occurrences(lastOp.queue, WorkCompQuestionId) + (IF WorkCompDue THEN 1 ELSE 0)

\* both questions were put in, ahead of a question that was waiting
C21_Witness ==
    /\ StateAnswered
    /\ CaliforniaDue /\ WorkCompDue
    /\ Len(lastOp.queue) > lastOp.index + 1
    /\ questionQueue[lastOp.index + 2].id = CaliforniaQuestionId
    /\ questionQueue[lastOp.index + 3].id = WorkCompQuestionId
    /\ questionQueue[lastOp.index + 4] = lastOp.queue[lastOp.index + 2]

\* question 9 answered while question 700 was queued already
C21_QueuedWitness == StateAnswered /\ QueueHas(lastOp.queue, WorkCompQuestionId)

\* question 9 answered as a button question
C21_ButtonWitness == StateAnswered /\ IsButtonAnswer(lastOp.question) /\ WorkCompDue

\* every question of the queue before the last answer is still queued, at the
\* same or a later position
AllKept ==
    \A k \in 1..Len(lastOp.queue) :
        \E m \in k..Len(questionQueue) : questionQueue[m] = lastOp.queue[k]

\* C22 as claimed: no answer removes a question from the queue
C22_NoRemovalAlways == Answered => AllKept

\* C22 amended: an answer that does not jump removes no question, and a jump
\* (a "Yes" to an initial button question with a classification list) keeps the
\* questions up to and including the answered one where they were and drops
\* the ones after it unless the list names them
C22_NoRemoval ==
    Answered =>
        /\ \A k \in 1..(lastOp.index + 1) : questionQueue[k] = lastOp.queue[k]
        /\ IF Jumped
           THEN \A k \in (lastOp.index + 2)..Len(lastOp.queue) :
                    QueueHas(questionQueue, lastOp.queue[k].id)
                        => \E i \in 1..Len(ResolvedList) : ResolvedList[i] = lastOp.queue[k].id
           ELSE AllKept

\* an answer without a jump that put questions in front of a waiting one, which
\* is still queued further back
C22_Witness ==
    /\ Answered /\ ~Jumped
    /\ Len(lastOp.queue) > lastOp.index + 1
    /\ Len(questionQueue) > Len(lastOp.queue)
    /\ questionQueue[lastOp.index + 2] # lastOp.queue[lastOp.index + 2]

\* a jump that dropped a waiting question
C22_JumpWitness ==
    /\ Jumped
    /\ \E k \in (lastOp.index + 2)..Len(lastOp.queue) : ~QueueHas(questionQueue, lastOp.queue[k].id)

(* The editor on a pool with an N/A follow-up, as the form's third selector sets it *)

\* question 2 with follow-ups for 'Yes' and 'N/A', and a root after them
NaFollowUpPool ==
    <<Q(2, TRUE, "buttons", Pts(4, 0, 1), ("Yes" :> 20) @@ ("N/A" :> 21)), Plain(20), Plain(21),
      Plain(22)>>

FormPools == BasePools \cup {NaFollowUpPool}

InitForm ==
    /\ allQuestions \in FormPools
    /\ LET s == initializeQuiz(allQuestions)
       IN /\ questionsMap = s.map
          /\ questionQueue = s.queue
          /\ currentQuestionIndex = s.index
          /\ score = s.score
          /\ quizComplete = s.complete
          /\ answers = s.answers
    /\ viewMode = "editor"
    /\ questions = EditorMount(allQuestions)
    /\ selectedQuestionId = NoSelection
    /\ editorError = "none"
    /\ lastOp = [op |-> "init"]
    /\ edits = 0
    /\ InitAsync
    /\ db = DatabaseOf(allQuestions)
    /\ storedDb = Persisted(db)

SpecForm == InitForm /\ [][NextEditor]_vars

\* the last handler was a change to the selected question
Changed == lastOp.op \in {"riskPoint", "followUp", "controlType", "input"}

\* the last change left some question with another followUp mapping
FollowUpAltered ==
    /\ Changed
    /\ \E i \in 1..Len(questions) : questions[i].followUp # lastOp.before[i].followUp

\* the numbers of the snapshot are the ones renumberQuestions gives it
NumbersCurrent ==
    LET r == renumberQuestions(questions)
    IN r.ok /\ \A i \in 1..Len(questions) : questions[i].number = r.qs[i].number

\* C23: after a change that alters a question's followUp mapping, the removals
\* of a control-type change included, the display numbers are those
\* renumberQuestions assigns to the new graph
C23_RenumberedAfterEdgeChange == FollowUpAltered => NumbersCurrent

\* the snapshot with every display number cleared ('')
Blanked(qs) == [i \in 1..Len(qs) |-> [qs[i] EXCEPT !.number = <<>>]]

\* the positions of the questions of qs that no other question's followUp targets
Untargeted(qs) ==
    {i \in 1..Len(qs) :
       \A j \in 1..Len(qs) : \A a \in DOMAIN qs[j].followUp :
          j # i => qs[j].followUp[a] # qs[i].id}

\* the positions holding a single integer in a sequence of display numbers
TopLevel(numbers) == {i \in 1..Len(numbers) : Len(numbers[i]) = 1}

\* the display numbers renumberQuestions gives the questions of a snapshot
\* whose numbers are all cleared: what a question has here, it received from
\* the renumbering
LabelsOf(r) == [i \in 1..Len(r.qs) |-> r.qs[i].number]

\* C24: renumberQuestions gives a top-level label to exactly the questions that
\* no other question's followUp targets, and labels them 1, 2, ..., k in pool
\* order
C24_RootNumbering ==
    LET r == renumberQuestions(Blanked(questions))
        labels == LabelsOf(r)
        top == TopLevel(labels)
    IN /\ r.ok
       /\ top = Untargeted(questions)
       /\ \A i \in top : labels[i] = <<Cardinality({j \in top : j <= i})>>

\* a snapshot the editor renumbered in which a follow-up target stands between
\* two roots
C24_Witness ==
    /\ lastOp.op \in {"add", "reorder", "followUp"}
    /\ \E i, j, k \in 1..Len(questions) :
         /\ i < j /\ j < k
         /\ Len(questions[i].number) = 1 /\ Len(questions[j].number) > 1 /\ Len(questions[k].number) = 1
         /\ questions[k].number = <<questions[i].number[1] + 1>>
         /\ {i, k} \subseteq Untargeted(questions) /\ j \notin Untargeted(questions)

\* the positions of the questions that the followUp of the question at i names
Kids(qs, i) ==
    {k \in 1..Len(qs) : \E a \in DOMAIN qs[i].followUp : qs[i].followUp[a] = qs[k].id}

\* no question is reached from itself along followUp entries, and none is named
\* by two questions
IsForest(qs) ==
    /\ \A id \in Ids(qs) : id \notin TreeItems(qs, ChildrenOf(qs, id), {})
    /\ \A k \in 1..Len(qs) : Cardinality({i \in 1..Len(qs) : k \in Kids(qs, i)}) <= 1

\* C25: on an acyclic graph where every question has at most one parent,
\* renumberQuestions labels the m children of a node labelled p as p.1, ...,
\* p.m in the order of their pool positions, whatever answer key names them
C25_ChildNumbering ==
    IsForest(questions) =>
        LET r == renumberQuestions(questions)
            labels == LabelsOf(r)
        IN /\ r.ok
           /\ \A i \in 1..Len(questions) : \A k \in Kids(questions, i) :
                labels[k] = Append(labels[i], Cardinality({j \in Kids(questions, i) : j <= k}))

\* a renumbered snapshot where the child named by 'N/A' stands ahead of the
\* child named by 'Yes' in the pool and has the first label
C25_Witness ==
    /\ IsForest(questions)
    /\ lastOp.op = "reorder"
    /\ \E i, k, m \in 1..Len(questions) :
         /\ "Yes" \in DOMAIN questions[i].followUp /\ questions[i].followUp["Yes"] = questions[m].id
         /\ "N/A" \in DOMAIN questions[i].followUp /\ questions[i].followUp["N/A"] = questions[k].id
         /\ k < m
         /\ questions[k].number = Append(questions[i].number, 1)
         /\ questions[m].number = Append(questions[i].number, 2)

\* q without its display number
Unnumbered(q) == [q EXCEPT !.number = <<>>]

\* C26: renumberQuestions returns the questions of its input in the same order,
\* each with the id, text, isInitial, controlType, riskPoints and followUp it
\* had: only display numbers differ
C26_RenumberFrame ==
    LET r == renumberQuestions(questions)
    IN r.ok =>
       /\ Len(r.qs) = Len(questions)
       /\ \A i \in 1..Len(questions) :
            /\ r.qs[i].id = questions[i].id
            /\ r.qs[i].text = questions[i].text
            /\ r.qs[i].isInitial = questions[i].isInitial
            /\ r.qs[i].controlType = questions[i].controlType
            /\ r.qs[i].riskPoints = questions[i].riskPoints
            /\ r.qs[i].followUp = questions[i].followUp
            /\ Unnumbered(r.qs[i]) = Unnumbered(questions[i])

\* a snapshot with an edited text, an initial question, risk points and a
\* follow-up, whose numbers renumberQuestions changes
C26_Witness ==
    /\ renumberQuestions(questions).qs # questions
    /\ \E i \in 1..Len(questions) : questions[i].text \in TextInputs \/ questions[i].number \in NumberInputs
    /\ \E i \in 1..Len(questions) : questions[i].isInitial
    /\ \E i \in 1..Len(questions) : DOMAIN questions[i].followUp # {}

\* the ids of qs in pool order
IdSeq(qs) == [i \in 1..Len(qs) |-> qs[i].id]

IdsDistinct(qs) == \A i, j \in 1..Len(qs) : qs[i].id = qs[j].id => i = j

\* an Add, Delete, Reorder or Change handler of the editor has just run
EditorOp == lastOp.op \in {"add", "delete", "reorder", "riskPoint", "followUp", "controlType", "input"}

\* seq without the entries equal to x
Without(seq, x) == LET Other(y) == y # x IN SelectSeq(seq, Other)

\* C27: the ids of the pool are pairwise distinct after every editor operation,
\* and no operation changes the id of an existing question: Add keeps the ids
\* in place and appends one id, Delete removes one id, Reorder permutes the
\* ids, and a Change leaves the id at every position
C27_IdsPreserved ==
    /\ IdsDistinct(questions)
    /\ EditorOp =>
         LET before == IdSeq(lastOp.before)
             after == IdSeq(questions)
         IN CASE lastOp.op = "add" ->
                   /\ Len(after) = Len(before) + 1
                   /\ SubSeq(after, 1, Len(before)) = before
                   /\ after[Len(after)] \notin Ids(lastOp.before)
              [] lastOp.op = "delete" ->
                   after = IF lastOp.confirmed THEN Without(before, lastOp.id) ELSE before
              [] lastOp.op = "reorder" ->
                   /\ Len(after) = Len(before)
                   /\ Ids(questions) = Ids(lastOp.before)
                   /\ Without(after, lastOp.draggedId) = Without(before, lastOp.draggedId)
              [] OTHER -> after = before

\* a question was added to a pool of several questions
C27_Witness ==
    /\ lastOp.op = "add"
    /\ Len(lastOp.before) > 1
    /\ Len(questions) = Len(lastOp.before) + 1

\* a Change replaced the selected question in a pool of several questions
C27_ChangeWitness ==
    /\ lastOp.op \in {"riskPoint", "followUp", "controlType", "input"}
    /\ Len(questions) > 1
    /\ questions # lastOp.before

\* a question was deleted, and one was moved
C27_DeleteWitness == lastOp.op = "delete" /\ lastOp.confirmed /\ Len(questions) > 1

C27_ReorderWitness == lastOp.op = "reorder" /\ IdSeq(questions) # IdSeq(lastOp.before)

\* q carries no scoring or branching its control type cannot use
NoUnusedScoring(q) ==
    /\ ~IsButtonAnswer(q) => q.riskPoints = Pts(0, 0, 0) /\ DOMAIN q.followUp = {}
    /\ q.controlType = "yes_no" => q.riskPoints["N/A"] = 0 /\ "N/A" \notin DOMAIN q.followUp

ControlTypeChanged == lastOp.op = "controlType"

\* riskPoints and followUp of every question of qs, by position
Scoring(qs) == [i \in 1..Len(qs) |-> <<qs[i].id, qs[i].riskPoints, qs[i].followUp>>]

\* C28 (first half): after every editor operation a question that is not
\* answered with buttons has zero risk points and no follow-up, and a yes_no
\* question has zero N/A points and no N/A follow-up
C28_NoScoringOffBinary == \A i \in 1..Len(questions) : NoUnusedScoring(questions[i])

\* C28 (second half, other questions): a control-type change leaves riskPoints
\* and followUp of every question but the changed one as they were
C28_OthersUntouched ==
    ControlTypeChanged =>
      \A i \in 1..Len(questions) :
        questions[i].id # lastOp.id => Scoring(questions)[i] = Scoring(lastOp.before)[i]

\* C28: non-binary questions carry no scoring or branching after every editor
\* operation, and a control-type change alters riskPoints and followUp neither
\* of another question nor of the snapshot the editor held before the change
C28_NonBinaryCarryNothing ==
    /\ C28_NoScoringOffBinary
    /\ C28_OthersUntouched
    /\ ControlTypeChanged => Scoring(lastOp.snapshot) = Scoring(lastOp.before)

\* a question with N/A points or an N/A follow-up was switched to yes_no
C28_Witness ==
    /\ ControlTypeChanged
    /\ lastOp.newType = "yes_no"
    /\ LET old == lastOp.before[FindIndex(lastOp.before, lastOp.id)]
       IN old.riskPoints["N/A"] # 0 \/ "N/A" \in DOMAIN old.followUp

\* a question with risk points and a follow-up was switched to a non-binary type
C28_ClearedWitness ==
    /\ ControlTypeChanged
    /\ ~IsButtonAnswer(questions[FindIndex(questions, lastOp.id)])
    /\ LET old == lastOp.before[FindIndex(lastOp.before, lastOp.id)]
       IN old.riskPoints # Pts(0, 0, 0) /\ DOMAIN old.followUp # {}

\* id lies on a followUp cycle of qs
OnCycle(qs, id) == id \in TreeItems(qs, ChildrenOf(qs, id), {})

\* the pool the last follow-up change handed to renumberQuestions
SubmittedPool ==
    LET question == lastOp.before[FindIndex(lastOp.before, lastOp.id)]
        updatedFollowUp == IF lastOp.value = 0 THEN DeleteKey(question.followUp, lastOp.answer)
                           ELSE (lastOp.answer :> lastOp.value) @@ question.followUp
    IN ReplaceQuestion(lastOp.before, [question EXCEPT !.followUp = updatedFollowUp, !.fuDef = TRUE])

\* renumbering descended from a root into a followUp cycle
CycleMet ==
    /\ lastOp.op = "followUp"
    /\ \E id \in Visible(SubmittedPool) : OnCycle(SubmittedPool, id)

\* the pool handed to renumberQuestions has a cycle that no root reaches
RootlessCycle ==
    /\ lastOp.op = "followUp"
    /\ \E id \in Ids(SubmittedPool) \ Visible(SubmittedPool) : OnCycle(SubmittedPool, id)

\* C29: when renumbering meets a followUp cycle the editor is given a warning:
\* the call neither throws nor passes without a report
C29_CycleWarning == CycleMet => editorError \notin {"none", "RangeError"}

\* the cycle that no root reaches passes without any report
C29_RootlessCycleReported == RootlessCycle => editorError # "none"

---------------------------------------------------------------------------
(* The database under the editor's Reset button *)

\* the pools a stored database can hold: saved by the editor as loaded or after one edit
ResetPools == BasePools \cup UNION {EditSuccessors(EditorMount(p)) : p \in BasePools}

\* what localStorage holds when the page is opened
StoredDbs == {NoStoredDb} \cup {Persisted(DatabaseOf(p)) : p \in ResetPools}

\* the page is opened: getInstance, loadQuestions, the initializeQuiz effect, the editor
InitReset ==
    /\ \E stored \in StoredDbs :
         LET r == getInstance(stored)
         IN /\ db = r.db
            /\ storedDb = IF r.persisted THEN Persisted(r.db) ELSE stored
    /\ allQuestions = getQuestions(db)
    /\ LET s == initializeQuiz(allQuestions)
       IN /\ questionsMap = s.map
          /\ questionQueue = s.queue
          /\ currentQuestionIndex = s.index
          /\ score = s.score
          /\ quizComplete = s.complete
          /\ answers = s.answers
    /\ viewMode = "editor"
    /\ questions = EditorMount(allQuestions)
    /\ selectedQuestionId = NoSelection
    /\ editorError = "none"
    /\ lastOp = [op |-> "init"]
    /\ edits = 0
    /\ InitAsync

\* the page is reloaded: App mounts again on what localStorage holds
AppMount ==
    /\ LET r == getInstance(storedDb)
       IN /\ db' = r.db
          /\ storedDb' = IF r.persisted THEN Persisted(r.db) ELSE storedDb
          /\ LET loaded == getQuestions(r.db)
             IN /\ allQuestions' = loaded
                /\ IF Len(loaded) = 0 THEN UNCHANGED quizVars ELSE SessionOf(initializeQuiz(loaded))
                /\ questions' = EditorMount(loaded)
    /\ viewMode' = "editor"
    /\ selectedQuestionId' = NoSelection
    /\ editorError' = "none"
    /\ lastOp' = [op |-> "mount"]
    /\ UNCHANGED <<asyncVars, edits>>

\* the editor's Reset button: handleReset asks, handleResetQuestions awaits
\* resetQuestions and, when it resolves, loadQuestions and setViewMode('quiz')
HandleResetQuestions ==
    /\ viewMode = "editor"
    /\ \E confirmed \in BOOLEAN :
         LET r == IF confirmed THEN resetQuestions(db) ELSE [ok |-> FALSE, db |-> db, persisted |-> FALSE]
         IN /\ db' = r.db
            /\ storedDb' = IF r.persisted THEN Persisted(r.db) ELSE storedDb
            /\ IF r.ok
               THEN LET loaded == getQuestions(r.db)
                    IN /\ allQuestions' = loaded
                       /\ SessionOf(initializeQuiz(loaded))
                       /\ questions' = EditorMount(loaded)
                       /\ viewMode' = "quiz"
                       /\ selectedQuestionId' = NoSelection
               ELSE UNCHANGED <<allQuestions, quizVars, questions, viewMode, selectedQuestionId>>
            /\ lastOp' = [op |-> "reset", confirmed |-> confirmed, ok |-> r.ok, before |-> db]
    /\ UNCHANGED <<editorError, asyncVars, edits>>

NextReset ==
    \/ HandleResetQuestions
    \/ HandleSaveQuestions
    \/ AppMount

SpecReset == InitReset /\ [][NextReset]_vars

\* resetQuestions was called
ResetCalled == lastOp.op = "reset" /\ lastOp.confirmed

\* the database holds the default question set
HoldsDefaults(database) ==
    /\ database.rows = saveQuestions(ALL_QUESTIONS).rows
    /\ database.rules = saveQuestions(ALL_QUESTIONS).rules

\* C30: resetQuestions completes on a database whose schema exists, and the
\* database then holds exactly ALL_QUESTIONS, in order and with their follow-up
\* rules, which a following getQuestions returns
C30_ResetToDefaults ==
    ResetCalled =>
      /\ lastOp.ok
      /\ HoldsDefaults(db)
      /\ getQuestions(db) = getQuestions(DatabaseOf(ALL_QUESTIONS))

\* C30 (first half alone): whenever resetQuestions completes, the database
\* holds the default set
C30_CompletedResetHoldsDefaults == (ResetCalled /\ lastOp.ok) => HoldsDefaults(db)

\* a completed reset
C30_CompletedWitness == ResetCalled /\ lastOp.ok

\* the page opened without a stored database holds the defaults
C30_SeededWitness == lastOp.op = "init" /\ HoldsDefaults(db) /\ Len(allQuestions) = Len(ALL_QUESTIONS)

---------------------------------------------------------------------------
(* database.ts: concurrent calls of DatabaseService.getInstance *)

\* the dbPromise test reading a promise as set only once it has settled
HasPromiseOnceSettled(promise, all) == promise # 0 /\ all[promise].state # "pending"

\* if (dbPromise): a promise, pending or settled, has been stored
HasPromise(promise, all) == promise # 0

\* the databases localStorage can hold when the service is first asked for
ServiceStoredDbs == {NoStoredDb} \cup {Persisted(DatabaseOf(p)) : p \in BasePools}

\* the page before the service exists: nothing loaded, no caller yet
InitInstance ==
    /\ storedDb \in ServiceStoredDbs
    /\ db = NewDatabase
    /\ allQuestions = <<>>
    /\ questionsMap = BuildMap(<<>>)
    /\ questionQueue = <<>>
    /\ currentQuestionIndex = 0
    /\ score = 0
    /\ quizComplete = FALSE
    /\ answers = [id \in {} |-> 0]
    /\ viewMode = "editor"
    /\ questions = <<>>
    /\ selectedQuestionId = NoSelection
    /\ editorError = "none"
    /\ lastOp = [op |-> "init"]
    /\ edits = 0
    /\ InitService
    /\ InitCodeCache
    /\ InitTreeView
    /\ InitWorkComp

\* what a step of the service leaves alone
ServiceFrame == UNCHANGED <<allQuestions, quizVars, viewMode, editorVars, cacheVars, treeVars, workCompVars, edits>>

\* a caller runs getInstance up to its return: the stored promise, or a new one
\* whose body has started and is waiting for initSqlJs
CallGetInstance ==
    /\ \E c \in Callers :
         /\ callers[c].pc = "idle"
         /\ IF HasPromise(dbPromise, promises)
            THEN /\ callers' = [callers EXCEPT ![c] = [pc |-> "awaiting", promise |-> dbPromise,
                                                      joined |-> promises[dbPromise].state = "pending",
                                                      instance |-> 0]]
                 /\ UNCHANGED <<dbPromise, promises>>
            ELSE /\ promises' = [promises EXCEPT ![c].state = "pending"]
                 /\ dbPromise' = c
                 /\ callers' = [callers EXCEPT ![c] = [pc |-> "awaiting", promise |-> c,
                                                      joined |-> FALSE, instance |-> 0]]
         /\ lastOp' = [op |-> "getInstance", caller |-> c]
    /\ UNCHANGED <<dbVars, initCount>>
    /\ ServiceFrame

\* initSqlJs resolved: the body loads or creates the database, constructs the
\* instance, seeds a database without a Questions table, and resolves
SqlLoaded ==
    /\ \E p \in Callers :
         /\ promises[p].state = "pending"
         /\ LET r == getInstance(storedDb)
            IN /\ db' = r.db
               /\ storedDb' = IF r.persisted THEN Persisted(r.db) ELSE storedDb
               /\ initCount' = [loads |-> initCount.loads + 1,
                                seeds |-> initCount.seeds + (IF r.persisted THEN 1 ELSE 0),
                                instances |-> initCount.instances + 1]
               /\ promises' = [promises EXCEPT ![p] =
                                 IF r.ok THEN [state |-> "resolved", instance |-> initCount.instances + 1]
                                 ELSE [state |-> "rejected", instance |-> 0]]
         /\ lastOp' = [op |-> "sqlLoaded", promise |-> p]
    /\ UNCHANGED <<dbPromise, callers>>
    /\ ServiceFrame

\* initSqlJs rejected (the wasm file could not be fetched)
SqlFailed ==
    /\ \E p \in Callers :
         /\ promises[p].state = "pending"
         /\ promises' = [promises EXCEPT ![p].state = "rejected"]
         /\ lastOp' = [op |-> "sqlFailed", promise |-> p]
    /\ UNCHANGED <<dbVars, dbPromise, callers, initCount>>
    /\ ServiceFrame

\* a caller's await of getInstance() ends
Settle ==
    /\ \E c \in Callers :
         /\ callers[c].pc = "awaiting"
         /\ promises[callers[c].promise].state \in {"resolved", "rejected"}
         /\ callers' = [callers EXCEPT ![c].pc = IF promises[callers[c].promise].state = "resolved"
                                                 THEN "returned" ELSE "thrown",
                                       ![c].instance = promises[callers[c].promise].instance]
         /\ lastOp' = [op |-> "settle", caller |-> c]
    /\ UNCHANGED <<dbVars, dbPromise, promises, initCount>>
    /\ ServiceFrame

NextInstance == CallGetInstance \/ SqlLoaded \/ SqlFailed \/ Settle

SpecInstance == InitInstance /\ [][NextInstance]_vars

\* C31: however the calls of getInstance interleave, the database is loaded
\* or created at most once, the schema is seeded at most once, one instance is
\* constructed at most, and all callers that obtain an instance obtain that one
C31_SingletonInit ==
    /\ initCount.loads <= 1
    /\ initCount.seeds <= 1
    /\ initCount.instances <= 1
    /\ \A c \in Callers : callers[c].pc = "returned" => callers[c].instance = 1
    /\ \A c1, c2 \in Callers :
         (callers[c1].pc = "returned" /\ callers[c2].pc = "returned")
           => callers[c1].instance = callers[c2].instance

\* every caller has its instance, one of them having called while the
\* initialisation was still running, on a database that had to be seeded
C31_Witness ==
    /\ \A c \in Callers : callers[c].pc = "returned"
    /\ \E c \in Callers : callers[c].joined
    /\ initCount.seeds = 1

---------------------------------------------------------------------------
(* workCompService.ts: getWorkCompCodes and its localStorage cache *)

\* CACHE_EXPIRATION_MS (one week), in ticks
CACHE_EXPIRATION_MS == 2

\* JSON.stringify(dataToCache)
CachedData(timestamp, codes) == [kind |-> "data", timestamp |-> timestamp, codes |-> codes]

\* an entry JSON.parse throws on
CorruptCache == [kind |-> "corrupt", timestamp |-> 0, codes |-> <<>>]

\* what fetchCodesFromGemini resolves to: [] on any failure, else the codes
FetchResults == {<<>>, <<"8810">>, <<"5403", "8742">>}

\* the cache test with <= for <
IsFreshInclusive(entry, time) == entry.kind = "data" /\ time - entry.timestamp <= CACHE_EXPIRATION_MS

\* the entry parses and Date.now() - cachedData.timestamp < CACHE_EXPIRATION_MS
IsFresh(entry, time) == entry.kind = "data" /\ time - entry.timestamp < CACHE_EXPIRATION_MS

\* the cache is written whatever the fetch returned
ShouldCacheAlways(codes) == TRUE

\* if (codes.length > 0)
ShouldCache(codes) == Len(codes) > 0

\* the entries localStorage can hold when the page is opened
CacheEntries ==
    {NoCache, CorruptCache} \cup {CachedData(t, <<"7380">>) : t \in 0..1}

InitCache ==
    /\ allQuestions \in {ScenarioPool}
    /\ LET s == initializeQuiz(allQuestions)
       IN /\ questionsMap = s.map
          /\ questionQueue = s.queue
          /\ currentQuestionIndex = s.index
          /\ score = s.score
          /\ quizComplete = s.complete
          /\ answers = s.answers
    /\ viewMode = "quiz"
    /\ questions = EditorMount(allQuestions)
    /\ selectedQuestionId = NoSelection
    /\ editorError = "none"
    /\ lastOp = [op |-> "init"]
    /\ edits = 0
    /\ db = DatabaseOf(allQuestions)
    /\ storedDb = Persisted(db)
    /\ InitService
    /\ InitTreeView
    /\ InitWorkComp
    /\ now \in 1..2
    /\ cache \in CacheEntries
    /\ codeCalls = [c \in CodeCalls |-> [pc |-> "idle", fetched |-> FALSE, result |-> <<>>,
                                        seen |-> NoCache, at |-> 0]]

CacheFrame ==
    UNCHANGED <<allQuestions, quizVars, viewMode, editorVars, dbVars, serviceVars, treeVars,
                workCompVars, edits>>

\* time passes
Tick ==
    /\ now < MaxTime
    /\ now' = now + 1
    /\ lastOp' = [op |-> "tick"]
    /\ UNCHANGED <<cache, codeCalls>>
    /\ CacheFrame

\* getWorkCompCodes up to its return or its await: the cache is read, a fresh
\* entry is returned, an entry that does not parse is removed
CallGetWorkCompCodes ==
    /\ \E c \in CodeCalls :
         /\ codeCalls[c].pc = "idle"
         /\ IF IsFresh(cache, now)
            THEN /\ codeCalls' = [codeCalls EXCEPT ![c] = [pc |-> "done", fetched |-> FALSE,
                                                          result |-> cache.codes, seen |-> cache, at |-> now]]
                 /\ UNCHANGED cache
            ELSE /\ codeCalls' = [codeCalls EXCEPT ![c] = [pc |-> "fetching", fetched |-> TRUE,
                                                          result |-> <<>>, seen |-> cache, at |-> now]]
                 /\ cache' = IF cache.kind = "corrupt" THEN NoCache ELSE cache
         /\ lastOp' = [op |-> "getWorkCompCodes", call |-> c, before |-> cache]
    /\ UNCHANGED now
    /\ CacheFrame

\* fetchCodesFromGemini resolves and getWorkCompCodes runs to its end
FetchReturns ==
    /\ \E c \in CodeCalls, codes \in FetchResults :
         /\ codeCalls[c].pc = "fetching"
         /\ cache' = IF ShouldCache(codes) THEN CachedData(now, codes) ELSE cache
         /\ codeCalls' = [codeCalls EXCEPT ![c].pc = "done", ![c].result = codes]
         /\ lastOp' = [op |-> "fetchReturns", call |-> c, codes |-> codes, before |-> cache]
    /\ UNCHANGED now
    /\ CacheFrame

NextCache == Tick \/ CallGetWorkCompCodes \/ FetchReturns

SpecCache == InitCache /\ [][NextCache]_vars

\* entry parses and is younger than one week at the given time
ParseableYoung(entry, time) ==
    entry.kind = "data" /\ ~(time - entry.timestamp >= CACHE_EXPIRATION_MS)

\* C32: a call of getWorkCompCodes returns the cached codes without a fetch
\* exactly when it finds a parseable entry younger than one week, and fetches
\* otherwise; a fetch that returns a non-empty list writes that list with the
\* current time, and one that returns nothing leaves the entry as it was
C32_CodeCache ==
    /\ \A c \in CodeCalls :
         codeCalls[c].pc # "idle" =>
           /\ ~codeCalls[c].fetched <=> ParseableYoung(codeCalls[c].seen, codeCalls[c].at)
           /\ ~codeCalls[c].fetched =>
                codeCalls[c].pc = "done" /\ codeCalls[c].result = codeCalls[c].seen.codes
    /\ lastOp.op = "fetchReturns" =>
         cache = IF lastOp.codes # <<>> THEN CachedData(now, lastOp.codes) ELSE lastOp.before
    /\ lastOp.op = "getWorkCompCodes" =>
         (lastOp.before.kind = "data" => cache = lastOp.before)

\* a fetch failed while a parseable entry, too old to be used, was in the cache
C32_Witness ==
    /\ lastOp.op = "fetchReturns"
    /\ lastOp.codes = <<>>
    /\ lastOp.before.kind = "data"
    /\ cache = lastOp.before

\* a call answered from the cache, and an entry of exactly one week refused
C32_CachedWitness == \E c \in CodeCalls : codeCalls[c].pc = "done" /\ ~codeCalls[c].fetched

C32_WeekOldWitness ==
    \E c \in CodeCalls : /\ codeCalls[c].fetched
                         /\ codeCalls[c].seen.kind = "data"
                         /\ codeCalls[c].at - codeCalls[c].seen.timestamp = CACHE_EXPIRATION_MS

---------------------------------------------------------------------------
(* Session score against the recorded answers *)

\* the questions whose recorded answer is one of the three tokens of a binary control
ScoredIds ==
    {id \in DOMAIN answers : /\ id \in DOMAIN questionsMap
                             /\ IsButtonAnswer(questionsMap[id])
                             /\ IsAnswerToken(answers[id])}

RECURSIVE SumPoints(_)
SumPoints(ids) ==
    IF ids = {} THEN 0
    ELSE LET id == CHOOSE x \in ids : TRUE
         IN questionsMap[id].riskPoints[answers[id].val[1]] + SumPoints(ids \ {id})

\* C33: score is the sum of riskPoints[answer] over the binary questions with a
\* recorded Yes, No or N/A, and a question is answered, and so scored, once
C33_ScoreMatchesAnswers ==
    /\ score = SumPoints(ScoredIds)
    /\ Answered => lastOp.question.id \notin DOMAIN lastOp.answers

\* the same on sessions whose queue never held a question twice
C33_ScoreMatchesOnDistinctQueue ==
    (\A i, j \in 1..Len(questionQueue) : questionQueue[i].id = questionQueue[j].id => i = j)
      => score = SumPoints(ScoredIds)

\* a session with several scored answers on a queue without repetition
C33_DistinctWitness ==
    /\ Cardinality(ScoredIds) >= 3
    /\ score > 0
    /\ \A i, j \in 1..Len(questionQueue) : questionQueue[i].id = questionQueue[j].id => i = j

---------------------------------------------------------------------------
(* Display numbers after a renumbering run *)

\* every question of qs has a number, and no two share one
NumbersCompleteUnique(qs) ==
    /\ \A i \in 1..Len(qs) : qs[i].number # <<>>
    /\ \A i, j \in 1..Len(qs) : qs[i].number = qs[j].number => i = j

\* no question of qs lies on a followUp cycle
Acyclic(qs) == \A id \in Ids(qs) : ~OnCycle(qs, id)

\* C34: a renumberQuestions run gives every question of the pool a display
\* number (the pool is handed over without numbers, so each number found
\* afterwards was assigned by the run) and gives no number twice, also on pools
\* with a followUp cycle that no root reaches
C34_NumbersCompleteUnique ==
    LET r == renumberQuestions(Blanked(questions))
    IN r.ok => NumbersCompleteUnique(r.qs)

\* the same on pools without a followUp cycle
C34_AcyclicCompleteUnique ==
    LET r == renumberQuestions(Blanked(questions))
    IN Acyclic(questions) => r.ok /\ NumbersCompleteUnique(r.qs)

\* the numbers the editor shows after an edit are pairwise distinct
C34_ShownNumbersUnique ==
    EditorOp => \A i, j \in 1..Len(questions) :
                  (questions[i].number = questions[j].number /\ questions[i].number # <<>>) => i = j

\* an acyclic pool with a follow-up chain and several roots
C34_AcyclicWitness ==
    /\ Acyclic(questions)
    /\ Len(questions) >= 3
    /\ \E i \in 1..Len(questions) : Len(questions[i].number) >= 2

---------------------------------------------------------------------------
(* Follow-up targets under editing *)

\* every followUp entry of qs names a question of qs
NoDangling(qs) ==
    \A i \in 1..Len(qs) : \A a \in DOMAIN qs[i].followUp : qs[i].followUp[a] \in Ids(qs)

\* C35: when every followUp target of the pool the editor was opened on is a
\* question of the pool, every followUp target of every snapshot the editor
\* reaches is a question of that snapshot
C35_NoDanglingFollowUp == NoDangling(allQuestions) => NoDangling(questions)

\* a question that another one's followUp named was deleted
C35_Witness ==
    /\ Deleted
    /\ NoDangling(lastOp.before)
    /\ \E i \in 1..Len(lastOp.before) : \E a \in DOMAIN lastOp.before[i].followUp :
         lastOp.before[i].followUp[a] = lastOp.id

\* a follow-up was set from the form's options
C35_FollowUpSetWitness ==
    /\ lastOp.op = "followUp"
    /\ lastOp.value # 0
    /\ \E i \in 1..Len(questions) :
         /\ questions[i].id = lastOp.id
         /\ lastOp.answer \in DOMAIN questions[i].followUp
         /\ questions[i].followUp[lastOp.answer] = lastOp.value

---------------------------------------------------------------------------
(* TreeView.tsx: the forest shown beside the form *)

\* the orders of the three answer keys
KeyOrders ==
    {o \in [1..3 -> Answers] : \A i, j \in 1..3 : o[i] = o[j] => i = j}

\* Object.values(q.followUp): the targets in the order the object holds its keys
ObjectValues(q, order) ==
    LET Held(a) == a \in DOMAIN q.followUp
        keys == SelectSeq(order, Held)
    IN [k \in 1..Len(keys) |-> q.followUp[keys[k]]]

\* seq without the entries that repeat an earlier one
RECURSIVE Distinct(_)
Distinct(seq) ==
    IF Len(seq) = 0 THEN <<>>
    ELSE LET front == Distinct(SubSeq(seq, 1, Len(seq) - 1))
             last == seq[Len(seq)]
         IN IF \E k \in 1..Len(front) : front[k] = last THEN front ELSE Append(front, last)

\* the children array of a node: the targets that are nodes, pushed once each,
\* in the order Object.values gives them
TreeChildren(qs, q, order) ==
    LET IsNode(id) == id \in Ids(qs)
    IN Distinct(SelectSeq(ObjectValues(q, order), IsNode))

\* rootNodes: the questions no followUp names, in pool order
TreeRoots(qs) ==
    LET NotChild(id) == id \notin ChildIds(qs)
    IN SelectSeq([i \in 1..Len(qs) |-> qs[i].id], NotChild)

\* the tree useMemo of TreeView
TreeOf(qs, order) ==
    [rendered |-> TRUE,
     roots |-> TreeRoots(qs),
     children |-> [i \in 1..Len(qs) |-> TreeChildren(qs, qs[i], order)]]

\* the pools the editor shows: as loaded or after one edit, without a cycle
TreePools ==
    {qs \in UNION {{EditorMount(p)} \cup EditSuccessors(EditorMount(p)) : p \in FormPools} :
       \A id \in Ids(qs) : id \notin TreeItems(qs, ChildrenOf(qs, id), {})}

InitTree ==
    /\ allQuestions \in TreePools
    /\ LET s == initializeQuiz(allQuestions)
       IN /\ questionsMap = s.map
          /\ questionQueue = s.queue
          /\ currentQuestionIndex = s.index
          /\ score = s.score
          /\ quizComplete = s.complete
          /\ answers = s.answers
    /\ viewMode = "editor"
    /\ questions = EditorMount(allQuestions)
    /\ selectedQuestionId = NoSelection
    /\ editorError = "none"
    /\ lastOp = [op |-> "init"]
    /\ edits = 0
    /\ db = DatabaseOf(allQuestions)
    /\ storedDb = Persisted(db)
    /\ InitService
    /\ InitCodeCache
    /\ InitWorkComp
    /\ keyOrder \in KeyOrders
    /\ tree = NoTree

\* TreeView renders the editor's questions
RenderTree ==
    /\ viewMode = "editor"
    /\ ~tree.rendered
    /\ tree' = TreeOf(questions, keyOrder)
    /\ lastOp' = [op |-> "render"]
    /\ UNCHANGED <<allQuestions, quizVars, viewMode, editorVars, dbVars, serviceVars, cacheVars,
                   keyOrder, workCompVars, edits>>

NextTree == RenderTree

SpecTree == InitTree /\ [][NextTree]_vars

\* the elements of a sequence
Range(seq) == {seq[k] : k \in 1..Len(seq)}

\* display number a comes before display number b
RECURSIVE NumberBefore(_, _)
NumberBefore(a, b) ==
    IF Len(a) = 0 THEN Len(b) > 0
    ELSE IF Len(b) = 0 THEN FALSE
    ELSE IF a[1] # b[1] THEN a[1] < b[1]
    ELSE NumberBefore(Tail(a), Tail(b))

\* the questions named by ids are listed in ascending order of their display numbers
Ascending(ids) ==
    \A k \in 1..(Len(ids) - 1) :
       NumberBefore(questions[FindIndex(questions, ids[k])].number,
                    questions[FindIndex(questions, ids[k + 1])].number)

\* C36 (forest): the rendered forest has the roots renumberQuestions starts
\* from and the parent-child relation it descends
C36_SameForest ==
    tree.rendered =>
      /\ Range(tree.roots) = RootIds(questions)
      /\ \A i \in 1..Len(questions) :
           Range(tree.children[i]) = ChildrenOf(questions, questions[i].id)

\* C36 (roots): the roots are listed in ascending order of display number
C36_RootsAscending == tree.rendered => Ascending(tree.roots)

\* C36: on an acyclic pool TreeView shows the forest renumberQuestions numbers
\* and lists the roots and the children of every node in ascending order of
\* their display numbers
C36_TreeAgreesWithNumbering ==
    tree.rendered =>
      /\ Range(tree.roots) = RootIds(questions)
      /\ \A i \in 1..Len(questions) :
           Range(tree.children[i]) = ChildrenOf(questions, questions[i].id)
      /\ Ascending(tree.roots)
      /\ \A i \in 1..Len(questions) : Ascending(tree.children[i])

\* a rendered tree with a node of two children and several roots
C36_Witness ==
    /\ tree.rendered
    /\ Len(tree.roots) >= 2
    /\ \E i \in 1..Len(questions) : Len(tree.children[i]) >= 2

---------------------------------------------------------------------------
(* database.ts: saveQuestions followed by getQuestions *)

\* the pools the editor hands to saveQuestions: a pool as loaded, or after one edit
PersistPools ==
    FormPools \cup {DanglingPool, YesNoStoredPool, ALL_QUESTIONS}
      \cup EditSuccessors(EditorMount(ChainPool))

\* what the database holds before the first call
PriorPools == FormPools \cup {DanglingPool, YesNoStoredPool, ALL_QUESTIONS}

InitPersist ==
    /\ \E p \in PriorPools :
         /\ db = DatabaseOf(p)
         /\ lastOp = [op |-> "init", saved |-> p, before |-> db]
    /\ storedDb = Persisted(db)
    /\ allQuestions = getQuestions(db)
    /\ LET s == initializeQuiz(allQuestions)
       IN /\ questionsMap = s.map
          /\ questionQueue = s.queue
          /\ currentQuestionIndex = s.index
          /\ score = s.score
          /\ quizComplete = s.complete
          /\ answers = s.answers
    /\ viewMode = "editor"
    /\ questions = EditorMount(allQuestions)
    /\ selectedQuestionId = NoSelection
    /\ editorError = "none"
    /\ edits = 0
    /\ InitAsync

\* db.saveQuestions(qs); handleSaveQuestions awaits loadQuestions after every
\* saveQuestions, so a second save comes after the read
CallSaveQuestions ==
    /\ lastOp.op # "saveQuestions"
    /\ \E qs \in PersistPools :
         /\ db' = SaveInto(db, qs)
         /\ lastOp' = [op |-> "saveQuestions", saved |-> qs, before |-> db]
    /\ storedDb' = Persisted(db')
    /\ UNCHANGED <<allQuestions, quizVars, viewMode, questions, selectedQuestionId, editorError,
                   asyncVars, edits>>

\* loadQuestions after a saveQuestions call: db.getQuestions(), setAllQuestions,
\* the initializeQuiz effect
CallGetQuestions ==
    /\ lastOp.op = "saveQuestions"
    /\ LET loaded == getQuestions(db)
       IN /\ allQuestions' = loaded
          /\ IF Len(loaded) = 0 THEN UNCHANGED quizVars ELSE SessionOf(initializeQuiz(loaded))
          /\ questions' = EditorMount(loaded)
    /\ lastOp' = [lastOp EXCEPT !.op = "getQuestions"]
    /\ UNCHANGED <<viewMode, selectedQuestionId, editorError, dbVars, asyncVars, edits>>

NextPersist == CallSaveQuestions \/ CallGetQuestions

SpecPersist == InitPersist /\ [][NextPersist]_vars

\* the (answer -> target) edges a question carries
Edges(q) == {<<a, q.followUp[a]>> : a \in DOMAIN q.followUp}

\* read is what a round trip makes of saved
ReadBack(saved, read) ==
    /\ read.id = saved.id
    /\ read.text = saved.text
    /\ read.number = saved.number
    /\ read.isInitial = saved.isInitial
    /\ read.riskPoints = saved.riskPoints
    /\ Edges(read) = Edges(saved)
    /\ read.controlType = IF saved.controlType = "undefined" THEN "buttons" ELSE saved.controlType

\* C37: for a pool Q with unique ids, getQuestions after saveQuestions(Q)
\* returns the questions of Q in the same order, each with the same id, text,
\* number, isInitial, riskPoints and set of followUp edges (an absent
\* controlType read back as 'buttons'), whatever the database held before.
C37_RoundTrip ==
    (lastOp.op = "getQuestions" /\ IdsDistinct(lastOp.saved)) =>
        /\ Len(allQuestions) = Len(lastOp.saved)
        /\ \A i \in 1..Len(allQuestions) : ReadBack(lastOp.saved[i], allQuestions[i])

\* a pool with an absent controlType and a followUp edge was saved over a
\* database holding other questions and a rule the pool does not have
C37_Witness ==
    /\ lastOp.op = "getQuestions"
    /\ IdsDistinct(lastOp.saved)
    /\ \E i \in 1..Len(lastOp.saved) : lastOp.saved[i].controlType = "undefined"
    /\ \E i \in 1..Len(lastOp.saved) : Edges(lastOp.saved[i]) # {}
    /\ IdSeq(getQuestions(lastOp.before)) # IdSeq(lastOp.saved)
    /\ \E r \in lastOp.before.rules :
         /\ \E i \in 1..Len(lastOp.saved) : lastOp.saved[i].id = r[1]
         /\ r \notin db.rules

---------------------------------------------------------------------------
(* App (src/unnamed/part_001): the work-comp code question *)

\* what the respondent can have in the input
InputValues == {"", "88", "8810", "4771"}

\* value.length
Length(value) == CASE value = "" -> 0 [] value = "88" -> 2 [] OTHER -> 4

\* `${code} - ${truncatedDesc}`
WithDescription(code) ==
    CASE code = "88" -> "88 - description"
      [] code = "8810" -> "8810 - description"
      [] OTHER -> "4771 - description"

\* what the description request of handleAddWorkCompCode comes back with: a
\* description, one naming explosives or ammunition, 'Description not found.',
\* or a rejected promise
DescriptionOutcomes == {"description", "explosive", "notFound", "error"}

\* what a suggestion request comes back with: a codes array, JSON without one,
\* or a rejected promise
SuggestionOutcomes == {"codes", "noArray", "error"}

\* result.codes of the response to value
SuggestionsFor(value) == <<value, "explosives">>

\* sessions in which the work-comp code question is asked: followed by a
\* buttons question, last of the queue, followed by a second code question
WorkCompPools ==
    { <<Q(700, TRUE, "work_comp_code", Pts(0, 0, 0), NoFollowUp), Industry(6, "buttons", 0)>>,
      <<Q(700, TRUE, "work_comp_code", Pts(0, 0, 0), NoFollowUp)>>,
      <<Q(700, TRUE, "work_comp_code", Pts(0, 0, 0), NoFollowUp),
        Q(701, TRUE, "work_comp_code", Pts(0, 0, 0), NoFollowUp)>> }

InitWorkCompSession ==
    /\ allQuestions \in WorkCompPools
    /\ LET s == initializeQuiz(allQuestions)
       IN /\ questionsMap = s.map
          /\ questionQueue = s.queue
          /\ currentQuestionIndex = s.index
          /\ score = s.score
          /\ quizComplete = s.complete
          /\ answers = s.answers
    /\ viewMode = "quiz"
    /\ questions = EditorMount(allQuestions)
    /\ selectedQuestionId = NoSelection
    /\ editorError = "none"
    /\ lastOp = [op |-> "init"]
    /\ edits = 0
    /\ InitAsync
    /\ db = DatabaseOf(allQuestions)
    /\ storedDb = Persisted(db)

\* renderContent renders the controls of the current question
ControlsShown == ~isRejected /\ AnswerControlsShown(viewMode, quizComplete, questionQueue, currentQuestionIndex)

\* the input, the Add button and the code list are rendered
WorkCompControlsShown ==
    ControlsShown /\ questionQueue[currentQuestionIndex + 1].controlType = "work_comp_code"

\* what a step of the work-comp code controls leaves alone
WorkCompFrame == UNCHANGED <<allQuestions, viewMode, editorVars, dbVars, serviceVars, cacheVars, treeVars, edits>>

\* handleWorkCompInputChange: the input changes to value
HandleWorkCompInputChange ==
    /\ WorkCompControlsShown
    /\ keystrokes < MaxKeystrokes
    /\ \E value \in InputValues \ {currentWorkCompCodeInput} :
         /\ currentWorkCompCodeInput' = value
         /\ workCompSuggestions' = <<>>
         /\ keystrokes' = keystrokes + 1
         /\ IF Length(value) > 2
            THEN /\ isFetchingSuggestions' = TRUE
                 /\ debounceTimeoutRef' = [armed |-> TRUE, value |-> value, key |-> keystrokes']
            ELSE /\ isFetchingSuggestions' = FALSE
                 /\ debounceTimeoutRef' = [debounceTimeoutRef EXCEPT !.armed = FALSE]
         /\ lastOp' = [op |-> "input", value |-> value]
    /\ UNCHANGED <<quizVars, lookupVars, requests>>
    /\ WorkCompFrame

\* the 500 ms timer runs out: the callback sends the request for its value
DebounceFires ==
    /\ debounceTimeoutRef.armed
    /\ debounceTimeoutRef' = [debounceTimeoutRef EXCEPT !.armed = FALSE]
    /\ requests' = Append(requests, [value |-> debounceTimeoutRef.value, key |-> debounceTimeoutRef.key,
                                     state |-> "outstanding", response |-> <<>>])
    /\ lastOp' = [op |-> "timer"]
    /\ UNCHANGED <<quizVars, currentWorkCompCodeInput, lookupVars, workCompSuggestions,
                   isFetchingSuggestions, keystrokes>>
    /\ WorkCompFrame

\* a suggestion request comes back: the rest of the timer callback
SuggestionsArrive ==
    /\ \E i \in 1..Len(requests), outcome \in SuggestionOutcomes :
         /\ requests[i].state = "outstanding"
         /\ LET codes == IF outcome = "codes" THEN SuggestionsFor(requests[i].value) ELSE <<>>
            IN /\ workCompSuggestions' = codes
               /\ requests' = [requests EXCEPT ![i].state = "resolved", ![i].response = codes]
         /\ lastOp' = [op |-> "suggestions", request |-> i]
    /\ isFetchingSuggestions' = FALSE
    /\ UNCHANGED <<quizVars, currentWorkCompCodeInput, lookupVars, debounceTimeoutRef, keystrokes>>
    /\ WorkCompFrame

\* handleAddWorkCompCode up to its await: the Add button is clicked
HandleAddWorkCompCode ==
    /\ WorkCompControlsShown
    /\ currentWorkCompCodeInput # ""
    /\ ~isFetchingCompCodeDesc
    /\ lookup.count < MaxLookups
    /\ isFetchingCompCodeDesc' = TRUE
    /\ lookup' = [state |-> "pending", code |-> currentWorkCompCodeInput, seen |-> workCompCodes,
                  index |-> currentQuestionIndex, complete |-> quizComplete,
                  count |-> lookup.count + 1]
    /\ lastOp' = [op |-> "add"]
    /\ UNCHANGED <<quizVars, currentWorkCompCodeInput, workCompCodes, isRejected, suggestVars>>
    /\ WorkCompFrame

\* handleAddWorkCompCode after its await: the description request comes back
DescriptionArrives ==
    /\ lookup.state = "pending"
    /\ \E outcome \in DescriptionOutcomes :
         LET newCodeEntry == IF outcome = "description" THEN WithDescription(lookup.code)
                             ELSE lookup.code
         IN /\ IF outcome = "explosive"
               THEN /\ isRejected' = TRUE
                    /\ UNCHANGED <<workCompCodes, currentWorkCompCodeInput, workCompSuggestions>>
               ELSE /\ workCompCodes' = IF newCodeEntry \in Range(lookup.seen) THEN workCompCodes
                                        ELSE Append(workCompCodes, newCodeEntry)
                    /\ currentWorkCompCodeInput' = ""
                    /\ workCompSuggestions' = <<>>
                    /\ UNCHANGED isRejected
            /\ lastOp' = [op |-> "description", outcome |-> outcome, codes |-> workCompCodes,
                          rejected |-> isRejected,
                          late |-> (currentQuestionIndex # lookup.index \/ quizComplete # lookup.complete)]
    /\ isFetchingCompCodeDesc' = FALSE
    /\ lookup' = [lookup EXCEPT !.state = "idle"]
    /\ UNCHANGED <<quizVars, isFetchingSuggestions, debounceTimeoutRef, requests, keystrokes>>
    /\ WorkCompFrame

\* handleRemoveWorkCompCode: the x of a listed code is clicked
HandleRemoveWorkCompCode ==
    /\ WorkCompControlsShown
    /\ \E codeToRemove \in Range(workCompCodes) :
         workCompCodes' = SelectSeq(workCompCodes, LAMBDA code : code # codeToRemove)
    /\ lastOp' = [op |-> "remove"]
    /\ UNCHANGED <<quizVars, currentWorkCompCodeInput, isFetchingCompCodeDesc, lookup, isRejected,
                   suggestVars>>
    /\ WorkCompFrame

\* the values the controls of q pass to handleAnswer; Continue of the
\* work-comp code question is disabled while the code list is empty
ShownAnswers(q) ==
    IF q.controlType = "work_comp_code"
    THEN IF Len(workCompCodes) > 0 THEN {List(workCompCodes)} ELSE {}
    ELSE OfferedAnswers(q)

\* an answer control is used: handleAnswer, then the effect on
\* currentQuestionIndex that resets the inputs
AnswerShownQuestion ==
    /\ ControlsShown
    /\ \E answer \in ShownAnswers(questionQueue[currentQuestionIndex + 1]) :
         LET r == handleAnswer(questionQueue, currentQuestionIndex, score, quizComplete,
                               answers, questionsMap, answer)
         IN /\ questionQueue' = r.queue
            /\ currentQuestionIndex' = r.index
            /\ score' = r.score
            /\ quizComplete' = r.complete
            /\ answers' = r.answers
            /\ IF r.index # currentQuestionIndex
               THEN currentWorkCompCodeInput' = "" /\ workCompCodes' = <<>>
               ELSE UNCHANGED <<currentWorkCompCodeInput, workCompCodes>>
            /\ lastOp' = [op |-> "answer", answer |-> answer]
    /\ UNCHANGED <<questionsMap, isFetchingCompCodeDesc, lookup, isRejected, suggestVars>>
    /\ WorkCompFrame

NextWorkComp ==
    \/ HandleWorkCompInputChange
    \/ DebounceFires
    \/ SuggestionsArrive
    \/ HandleAddWorkCompCode
    \/ DescriptionArrives
    \/ HandleRemoveWorkCompCode
    \/ AnswerShownQuestion

SpecWorkComp == InitWorkCompSession /\ [][NextWorkComp]_vars

\* the description request came back after the respondent had submitted the
\* question it was started on
LateDescription == lastOp.op = "description" /\ lastOp.late

\* C38: when the description request of handleAddWorkCompCode comes back after
\* the respondent has submitted the question and the session has advanced or
\* completed, it adds no code to the code list and does not set the rejected state.
C38_LateLookupHarmless ==
    LateDescription => (workCompCodes = lastOp.codes /\ isRejected = lastOp.rejected)

\* a description request that comes back while its question is still the
\* current one adds at most its own code to the list
C38_TimelyLookupAddsItsCode ==
    (lastOp.op = "description" /\ ~lastOp.late) =>
        \/ workCompCodes = lastOp.codes
        \/ \E entry \in {lookup.code, WithDescription(lookup.code)} :
             workCompCodes = Append(lastOp.codes, entry)

---------------------------------------------------------------------------
(* App (src/unnamed/part_001): the debounced suggestions alone *)

NextSuggest ==
    \/ HandleWorkCompInputChange
    \/ DebounceFires
    \/ SuggestionsArrive

SpecSuggest == InitWorkCompSession /\ [][NextSuggest]_vars

\* a suggestion request is outstanding
Outstanding == \E i \in 1..Len(requests) : requests[i].state = "outstanding"

\* no timer is running and every request sent has come back
AllResolved == ~debounceTimeoutRef.armed /\ ~Outstanding

\* the suggestions shown are the response to the most recent input value
\* (none for an input of two characters or fewer)
ShowsLatest ==
    IF Length(currentWorkCompCodeInput) > 2
    THEN \E i \in 1..Len(requests) :
           requests[i].key = keystrokes /\ workCompSuggestions = requests[i].response
    ELSE workCompSuggestions = <<>>

\* C39 (first half): once every request has come back, the suggestions shown
\* are the response to the most recent input value
C39_ShowsLatest == (keystrokes > 0 /\ AllResolved) => ShowsLatest

\* C39 (second half): the fetching indicator is true while a request is outstanding
C39_FetchingWhileOutstanding == Outstanding => isFetchingSuggestions

\* C39: for any interleaving of keystrokes, timer firings and responses, once
\* all outstanding requests have resolved the suggestions shown are the
\* response to the most recent input value, and the fetching indicator is
\* true while any request is outstanding.
C39_DebouncedSuggestions == C39_ShowsLatest /\ C39_FetchingWhileOutstanding

====
